---------------------------- MODULE Spec2Model ----------------------------
(***************************************************************************)
(* A model of digalert: the polling loop of main.py (capture, detect,      *)
(* notify per source, with pause and the dashboard's requests) and the     *)
(* capture orchestration of capture.py (WindowCapture.capture).            *)
(*                                                                         *)
(* Time is counted in ticks.  current_time is the value main() reads at    *)
(* the top of a cycle (main.py:302); every comparison of the loop uses     *)
(* that value, so the model advances it once per cycle.  The configured    *)
(* durations (notification_cooldown, the black-screen delay) are scaled    *)
(* to ticks.  Confidences and thresholds are in percent.                   *)
(*                                                                         *)
(* Spec is the loop with every outcome of capture and matching and with    *)
(* the pause requests of the other threads; LiveSpec is the loop with an   *)
(* alert that stays on screen, under weak fairness of the loop's steps;    *)
(* SpecCapture is one WindowCapture under every outcome of its methods.    *)
(***************************************************************************)
EXTENDS Integers, Sequences, FiniteSets, TLC

\* ------------------------------------------------------------------ bounds
\* The number of ticks the model follows the loop for.
MaxElapsed == 5
\* The longest time between the starts of two successive cycles.
MaxStep == 2
\* notification_cooldown of the two configured sources, in ticks.
CooldownLastWar == 3
CooldownBlueStack == 4
\* The delay between two black-screen notifications of a source, in ticks.
BlackScreenDelay == 3
\* The number of capture calls the model follows one WindowCapture for.
MaxCalls == 3
\* The number of template variants an alert may have.
MaxTemplates == 3
\* The images cv2.imread may decode in a run.
MaxDecodes == 24
\* The validations recorded for an alert in a run with any confidences.
MaxValidations == 11
\* The validations recorded for an alert in a run with one confidence.
MaxFeedback == 22
\* The notifications the model lets wait in the queue.
MaxPending == 12
\* The windows EnumWindows enumerates.
MaxWindows == 2
\* The windows initialize_capture_system is given.
MaxConfigured == 3
\* The sources of the v3 configuration and the cycles of its loop.
MaxSources == 2
MaxCycles == 2
\* The calls of capture the model follows with a method asked for.
HintedCalls == 2
\* The value a counter of a source's state may have when an iteration starts.
MaxCaptures == 3

\* ----------------------------------------------------------- configuration
\* config.py SOURCE_WINDOWS: the sources in configuration order.
SOURCE_WINDOWS ==
  << [source_name |-> "last war!", window_title |-> "Last War-Survival Game",
      notification_cooldown |-> CooldownLastWar, capture_method |-> "print_window"],
     [source_name |-> "bluestack", window_title |-> "BlueStacks App Player",
      notification_cooldown |-> CooldownBlueStack, capture_method |-> "win32_gdi"] >>

Sources == 1..Len(SOURCE_WINDOWS)

\* config.py ALERTS: the template alerts in configuration order (the OCR
\* alerts that follow are all disabled and are handled like TITANIUM!).
ALERTS ==
  << [name |-> "Dig!",      threshold |-> 70, enabled |-> TRUE],
     [name |-> "EGGGGGG!",  threshold |-> 80, enabled |-> TRUE],
     [name |-> "TITANIUM!", threshold |-> 75, enabled |-> FALSE] >>

AlertIdx == 1..Len(ALERTS)

\* The confidences check_for_alert may return for one alert on one frame.
Confidences == {0, 72, 85}

\* The outcomes of capture_window for one source in one cycle: no frame,
\* a near-uniform dark frame, an ordinary frame.
Screenshots == {"None", "black", "frame"}

\* What optimize_capture_method may return for a window that is not Last War.
OptimizedMethods == {"None", "print_window", "win32_gdi"}

VARIABLES
  current_time,     \* main.py:302  current_time of the running cycle
  pc,               \* position of main(): "top" | "for"
  idx,              \* index in SOURCE_WINDOWS of the source the for loop is at
  windows_state,    \* main.py:215  per-source state
  SYSTEM_PAUSED,    \* main.py:28
  system_paused,    \* webapp.py:31 WebAppManager.system_paused
  web_pc,           \* position of the dashboard's request handler
  source_name,      \* locals of the last iteration of the for loop
  screenshot,
  alert_detected,
  current_alert,
  enqueued,         \* the notifications that iteration put on the queue
  notified_alert,   \* per source, the alert of its last alert notification
  checked,          \* main.py:424  the calls of check_for_alert of the iteration
  window_title,            \* capture.py:181  the WindowCapture's window
  hwnd,                    \* capture.py:183  TRUE when a handle is held
  last_successful_method,  \* capture.py:184
  capture_stats,           \* capture.py:185
  remembered,       \* last_successful_method when the last capture call began
  works,            \* the methods that returned a frame when first invoked in it
  attempted,        \* the methods that call invoked, in order
  img,              \* what that call returned
  method_stats,     \* capture.py:188-202  capture_stats['method_stats'] has its entries
  template_paths,   \* detection.py:358  the variants handed to check_multiple_templates
  match_threshold,  \* detection.py:358  its threshold argument
  match_strategy,   \* detection.py:358
  match_result,     \* what it returned
  loaded_templates, \* the variants it called load_template_cached for, in order
  match_pc,         \* "call" before the call, "done" after
  detect_alert,         \* main.py:419  the alert the loop over ALERTS is at
  threshold_adjustment, \* learning_system.py:248  the learning data of that alert
  filter_detection,     \* detection.py:527  what should_filter_detection answers
  detect_result,        \* what check_for_alert computed
  alert_counted,        \* main.py:437  alert_detected after the test of line 436
  detect_pc,            \* "idle" | "call" | "done"
  scan_template,    \* detection.py:147  the template's width and height
  scan_frame,       \* detection.py:148  the screenshot's width and height
  scan_threshold,   \* detection.py:139  the threshold argument
  scan_scales,      \* detection.py:156  scales
  scan_i,           \* the position of the loop of line 182 in scales
  scan_j,           \* the position of the loop of line 183 in aspect_ratios
  best_match,       \* detection.py:144
  evaluated,        \* the number of (scale, ratio) pairs matched so far
  scan_result,      \* what advanced_template_matching returned
  scan_pc,          \* "idle" | "call" | "scan" | "done"
  template_cache,   \* detection.py:23  the cached paths, oldest entry first
  total_cycles,     \* main.py:303  global_stats["total_cycles"] modulo CleanupPeriod
  decodes,          \* the number of images cv2.imread has returned so far
  load_path,        \* the path of the last call of load_template_cached
  load_decoded,     \* whether that call read the file
  load_returned,    \* the buffer it returned, 0 for None
  alert_stats,             \* learning_system.py:88-96  alert_stats of one alert
  false_positive_patterns, \* learning_system.py:34  the patterns of that alert
  signatures,       \* the number of patterns computed for it so far
  notification_queue, \* main.py:96  the items put and not yet taken, oldest first
  put_returned,       \* what the last call of add_notification returned, if any
  desktop,          \* capture.py:254  the windows EnumWindows enumerates, in order
  found_hwnd,       \* capture.py:270, 277, 286  self.hwnd, 0 for None
  find_returned,    \* what the last call of find_window returned, if any
  capture_pc,       \* main.py:345-488  the statement the for loop's body is at
  counter_read,     \* the counter value an augmented assignment has read
  published,        \* webapp.py:900  the dashboard holds the loop's windows_state
  pause_pc,         \* main.py:46-79  the position of the thread that pauses or resumes
  toggle_read,      \* webapp.py:325  the flag api_toggle_pause read to negate it
  callback_arg,     \* webapp.py:326  the argument of _notify_pause_change
  method_hint,      \* capture.py:668, 182  the method asked of capture, or preferred
  init_windows,     \* capture.py:944-956  per configured window, what the lookups give
  init_pos,         \* capture.py:944  the position of the loop over source_windows
  success_count,    \* capture.py:941
  window_info,      \* capture.py:958  the local window_info
  init_returned,    \* what initialize_capture_system returned, if it has
  DIRECT_CAPTURE_INITIALIZED, \* capture.py:936
  config_sources,   \* v3 config_manager.py:15  config_manager.config["sources"]
  config_file,      \* v3 config_manager.py:14  what data/config.json holds
  capturers,        \* v3 core/capture.py:158   the names capture_manager knows
  captured,         \* v3 main.py:151-153  the names the latest cycle captured
  cycle_count,      \* v3 main.py:140
  last_call         \* the latest call of the source operations and its result

locals == << source_name, screenshot, alert_detected, current_alert, enqueued,
             notified_alert, checked >>
pause_flags == << SYSTEM_PAUSED, system_paused >>
loop == << current_time, pc, idx, windows_state, web_pc, locals, pause_flags >>
capvars == << window_title, hwnd, last_successful_method, capture_stats,
              remembered, works, attempted, img, method_stats >>
matchvars == << template_paths, match_threshold, match_strategy, match_result,
                loaded_templates, match_pc >>
detectvars == << detect_alert, threshold_adjustment, filter_detection,
                 detect_result, alert_counted, detect_pc >>
scanvars == << scan_template, scan_frame, scan_threshold, scan_scales, scan_i,
               scan_j, best_match, evaluated, scan_result, scan_pc >>
cachevars == << template_cache, total_cycles, decodes, load_path, load_decoded,
                load_returned >>
learnvars == << alert_stats, false_positive_patterns, signatures >>
queuevars == << notification_queue, put_returned >>
findvars == << desktop, found_hwnd, find_returned >>
racevars == << capture_pc, counter_read, published >>
pausevars == << pause_pc, toggle_read, callback_arg >>
startvars == << init_windows, init_pos, success_count, window_info,
               init_returned, DIRECT_CAPTURE_INITIALIZED >>
configvars == << config_sources, config_file, capturers, captured,
                cycle_count, last_call >>
latevars == << method_hint, startvars, configvars >>
extras == << racevars, pausevars, latevars >>
stores == << cachevars, learnvars, queuevars, findvars, extras >>
engine == << matchvars, detectvars, scanvars, stores >>
vars == << current_time, pc, idx, windows_state, SYSTEM_PAUSED, system_paused,
           web_pc, source_name, screenshot, alert_detected,
           current_alert, enqueued, notified_alert, checked,
           window_title, hwnd, last_successful_method, capture_stats,
           remembered, works, attempted, img, method_stats,
           template_paths, match_threshold, match_strategy, match_result,
           loaded_templates, match_pc,
           detect_alert, threshold_adjustment, filter_detection,
           detect_result, alert_counted, detect_pc,
           scan_template, scan_frame, scan_threshold, scan_scales, scan_i,
           scan_j, best_match, evaluated, scan_result, scan_pc,
           template_cache, total_cycles, decodes, load_path, load_decoded,
           load_returned, alert_stats, false_positive_patterns, signatures,
           notification_queue, put_returned, desktop, found_hwnd,
           find_returned, capture_pc, counter_read, published,
           pause_pc, toggle_read, callback_arg, method_hint,
           init_windows, init_pos, success_count, window_info, init_returned,
           DIRECT_CAPTURE_INITIALIZED, config_sources, config_file, capturers,
           captured, cycle_count, last_call >>

\* ------------------------------------------------------------- main.py state
\* main.py:218-237: the state of one source after construction.
InitialState(win) ==
  [ last_notification_time |-> 0,
    last_alert_state |-> FALSE,
    last_alert_name |-> "None",
    last_confidence |-> 0,
    consecutive_detections |-> 0,
    consecutive_failures |-> 0,
    total_captures |-> 0,
    successful_captures |-> 0,
    total_detections |-> 0,
    notifications_sent |-> 0,
    last_error |-> "None",
    error_count |-> 0,
    notification_cooldown |-> win.notification_cooldown,
    last_black_screen_notification |-> 0,
    capture_method |-> win.capture_method ]

\* time.time() when main() starts: the epoch clock is far past every delay.
StartTime == CooldownLastWar + CooldownBlueStack + BlackScreenDelay + 1
\* The last tick at which a cycle may start.
MaxTime == StartTime + MaxElapsed

\* The sources main() watches, in configuration order: those of the
\* configuration it was started with.
Watched == DOMAIN windows_state

\* main.py:211-250 with the first n sources of SOURCE_WINDOWS configured.
InitWith(n) ==
  /\ current_time = StartTime
  /\ pc = "top"
  /\ idx = 1
  /\ windows_state = [s \in 1..n |-> InitialState(SOURCE_WINDOWS[s])]
  /\ SYSTEM_PAUSED = FALSE
  /\ system_paused = FALSE
  /\ web_pc = "idle"
  /\ source_name = 0
  /\ screenshot = "None"
  /\ alert_detected = FALSE
  /\ current_alert = 0
  /\ enqueued = {}
  /\ notified_alert = [s \in 1..n |-> 0]
  /\ checked = << >>

\* capture.py:180-202: a WindowCapture after construction.
NewWindowCapture(title) ==
  /\ window_title = title
  /\ hwnd = FALSE
  /\ last_successful_method = "None"
  /\ capture_stats = [total_attempts |-> 0, successful_captures |-> 0,
                      last_error |-> "None"]
  /\ remembered = "None"
  /\ works = {}
  /\ attempted = << >>
  /\ img = "None"
  /\ method_stats = TRUE

\* detection.py:358: a call of check_multiple_templates about to be made.
MatchCall(paths, threshold, strategy) ==
  /\ template_paths = paths
  /\ match_threshold = threshold
  /\ match_strategy = strategy
  /\ match_result = [found |-> FALSE]
  /\ loaded_templates = << >>
  /\ match_pc = "call"

\* No call of check_multiple_templates is followed.
NoMatchCall == MatchCall(<< >>, 0, "best")

\* The fraction n / d, d positive.
Rational(n, d) == [num |-> n, den |-> d]
RatLeq(a, b) == a.num * b.den <= b.num * a.den
RatLess(a, b) == a.num * b.den < b.num * a.den
RatMin(a, b) == IF RatLeq(a, b) THEN a ELSE b
RatMax(a, b) == IF RatLeq(a, b) THEN b ELSE a

\* learning_system.py:248: threshold_adjustments has no entry for the alert.
NoAdjustment ==
  [samples |-> 0, suggested_threshold |-> Rational(0, 1),
   confidence |-> Rational(0, 1)]

\* What check_for_alert has computed before it is called.
NoDetectResult ==
  [confidence |-> 0, detection_success |-> FALSE, adjusted_threshold |-> 0]

\* main.py:423-442 about to run for alert a: its learning data and what
\* should_filter_detection will answer about the matched region.
DetectCall(a, adjustment, filtered) ==
  /\ detect_alert = a
  /\ threshold_adjustment = adjustment
  /\ filter_detection = filtered
  /\ detect_result = NoDetectResult
  /\ alert_counted = FALSE
  /\ detect_pc = IF a = 0 THEN "idle" ELSE "call"

\* No alert is being checked.
NoDetectCall == DetectCall(0, NoAdjustment, FALSE)

\* detection.py:144: best_match = None, best_confidence = 0
NoBestMatch ==
  [found |-> FALSE, confidence |-> 0, weighted_confidence |-> 0,
   scale |-> 0, aspect_ratio |-> 0, method |-> 0]

\* detection.py:139-148: advanced_template_matching is called with a
\* template and a screenshot of these sizes; no call when started is "idle".
ScanCall(template_size, frame_size, threshold, started) ==
  /\ scan_template = template_size
  /\ scan_frame = frame_size
  /\ scan_threshold = threshold
  /\ scan_scales = << >>
  /\ scan_i = 1
  /\ scan_j = 1
  /\ best_match = NoBestMatch
  /\ evaluated = 0
  /\ scan_result = NoBestMatch
  /\ scan_pc = started

\* No template is being scanned.
NoScanCall == ScanCall([w |-> 0, h |-> 0], [w |-> 0, h |-> 0], 0, "idle")

\* detection.py:16-26, 62 and main.py:240-242: the template cache is empty and
\* no cycle has begun.
EmptyCache ==
  /\ template_cache = << >>
  /\ total_cycles = 0
  /\ decodes = 0
  /\ load_path = 0
  /\ load_decoded = FALSE
  /\ load_returned = 0

\* learning_system.py:89-96: the statistics of an alert before its first
\* validation, confidences in hundredths.  sum_confidence_valid is
\* true_positives * avg_confidence_valid; avg_confidence_invalid, which no
\* decision reads, is left out.
InitialStats ==
  [true_positives |-> 0, false_positives |-> 0, sum_confidence_valid |-> 0,
   min_valid_confidence |-> 100, max_invalid_confidence |-> 0]

\* learning_system.py:48-53, 34: no validation has been recorded.
NoLearning ==
  /\ alert_stats = InitialStats
  /\ false_positive_patterns = << >>
  /\ signatures = 0

\* main.py:95-99, 131: the notification queue after construction.
EmptyQueue ==
  /\ notification_queue = << >>
  /\ put_returned = << >>

\* capture.py:183: find_window has not been called; windows are the windows
\* of the desktop.
FindCall(windows) ==
  /\ desktop = windows
  /\ found_hwnd = 0
  /\ find_returned = << >>

NoFindCall == FindCall(<< >>)

\* The stores of the detection and learning modules after their import,
\* the notification queue and the window search before their first call.
\* main.py:339, webapp.py:23: the for loop has not been entered and the
\* dashboard's windows_state is its own empty dict.
NoIteration ==
  /\ capture_pc = "for"
  /\ counter_read = 0
  /\ published = FALSE

\* No pause, resume or toggle has been called.
NoPauseCall ==
  /\ pause_pc = "idle"
  /\ toggle_read = FALSE
  /\ callback_arg = FALSE

\* capture.py:668: capture is called without a method.
NoHint == method_hint = "None"

\* capture.py:934-944: initialize_capture_system is entered with the
\* configured windows, for which the lookups will give outcomes.
Startup(outcomes) ==
  /\ init_windows = outcomes
  /\ init_pos = 1
  /\ success_count = 0
  /\ window_info = "unbound"
  /\ init_returned = "running"
  /\ DIRECT_CAPTURE_INITIALIZED = FALSE

\* The "enabled" entry of a source as source.get("enabled", True) reads it
\* (v3 config_manager.py:139, v3 main.py:119).
Enabled(source) == source.enabled # "False"

\* v3 config_manager.py:13-15 and v3 main.py:94-134: the configuration is
\* loaded from the file and initialize adds a capturer for every source
\* whose "enabled" entry is missing or true.
Configured(sources) ==
  /\ config_sources = sources
  /\ config_file = [written |-> "whole", sources |-> sources]
  /\ capturers = {sources[i].name : i \in {j \in DOMAIN sources : Enabled(sources[j])}}
  /\ captured = {}
  /\ cycle_count = 0
  /\ last_call = [op |-> "none", name |-> "none", saved |-> "not tried",
                  success |-> FALSE, message |-> "none"]

NoOthers == NoHint /\ Startup(<< >>) /\ Configured(<< >>)

NoExtras == NoIteration /\ NoPauseCall /\ NoOthers

NoStores == EmptyCache /\ NoLearning /\ EmptyQueue /\ NoFindCall /\ NoExtras

Init ==
  /\ InitWith(1)
  /\ NewWindowCapture(SOURCE_WINDOWS[1].window_title)
  /\ NoMatchCall
  /\ NoDetectCall
  /\ NoStores
  /\ NoScanCall

\* A pause check that reads the flag of main.py alone.
MainFlagOnly == SYSTEM_PAUSED

\* main.py:64-69
is_system_paused == SYSTEM_PAUSED \/ system_paused

\* main.py:116-126: Queue() is built without a maxsize, so put() never
\* finds the queue full and add_notification returns True.
add_notification(item) == TRUE


\* ------------------------------------------------------- one source, one cycle
\* A failed capture that also forgets the alert seen on the last frame.
FailureClearsAlert(st, optimized) ==
  [st EXCEPT !.consecutive_failures = @ + 1,
             !.last_error = "capture failed",
             !.error_count = @ + 1,
             !.last_alert_state = FALSE,
             !.consecutive_detections = 0]

\* main.py:353-383: capture_window returned None.  optimized is what
\* optimize_capture_method returns at the fifth failure in a row.
CaptureFailed(st, optimized) ==
  LET failures == st.consecutive_failures + 1
  IN [st EXCEPT !.consecutive_failures = failures,
                !.last_error = "capture failed",
                !.error_count = @ + 1,
                !.capture_method =
                   IF failures = 5 /\ optimized # "None" THEN optimized ELSE @]

\* A black frame is notified whatever the time of the last notification.
AlwaysDue(st, now) == TRUE

\* main.py:393: a black-screen notification is due.
BlackScreenDue(st, now) ==
  now - st.last_black_screen_notification > BlackScreenDelay

\* main.py:389-399: a black-screen notification is put on the queue.
BlackNotified(st, shot, now, source) ==
  /\ shot = "black"
  /\ BlackScreenDue(st, now)
  /\ add_notification([kind |-> "black", source |-> source, alert |-> 0])

\* main.py:388-411: the black-screen check of a captured frame, then the
\* bookkeeping of a successful capture.
BlackScreenCheck(st, shot, now, source) ==
  LET st1 == IF shot = "black"
             THEN [st EXCEPT !.last_black_screen_notification =
                                IF BlackNotified(st, shot, now, source)
                                THEN now ELSE @,
                             !.consecutive_failures = @ + 1,
                             !.last_error = "black screen"]
             ELSE IF st.last_error = "black screen"
                  THEN [st EXCEPT !.consecutive_failures = 0,
                                  !.last_error = "None"]
                  ELSE st
  IN [st1 EXCEPT !.successful_captures = @ + 1, !.last_error = "None"]

\* main.py:436: the loop's test that an alert is detected.
Detected(confidence, alert) == confidence >= alert.threshold

\* main.py:443-445: conf[i] when check_for_alert raised for alert i; the
\* loop logs it and goes on with the next alert.
Raised == -1

\* A loop over ALERTS without the break of line 442: every enabled alert is
\* checked and the last one detected is the current alert.
RECURSIVE ScanAllAlerts(_, _, _)
ScanAllAlerts(conf, i, max_confidence) ==
  IF i > Len(ALERTS)
  THEN [alert_detected |-> FALSE, current_alert |-> 0,
        max_confidence |-> max_confidence, calls |-> << >>]
  ELSE IF ~ALERTS[i].enabled
  THEN ScanAllAlerts(conf, i + 1, max_confidence)
  ELSE LET call == << [alert |-> i, confidence |-> conf[i]] >>
           m == IF conf[i] > max_confidence THEN conf[i] ELSE max_confidence
           rest == ScanAllAlerts(conf, i + 1, m)
       IN IF Detected(conf[i], ALERTS[i])
          THEN [rest EXCEPT !.alert_detected = TRUE,
                            !.current_alert = IF @ = 0 THEN i ELSE @,
                            !.calls = call \o @]
          ELSE [rest EXCEPT !.calls = call \o @]

\* main.py:414-445: the alerts are checked in configuration order, the
\* disabled ones skipped, up to the first one detected.  conf[i] is what
\* check_for_alert returns for alert i on this frame.  calls are the calls of
\* check_for_alert made, in order, with what each returned.
RECURSIVE ScanAlerts(_, _, _)
ScanAlerts(conf, i, max_confidence) ==
  IF i > Len(ALERTS)
  THEN [alert_detected |-> FALSE, current_alert |-> 0,
        max_confidence |-> max_confidence, calls |-> << >>]
  ELSE IF ~ALERTS[i].enabled
  THEN ScanAlerts(conf, i + 1, max_confidence)
  ELSE LET call == << [alert |-> i, confidence |-> conf[i]] >>
       IN IF conf[i] = Raised
          THEN [ScanAlerts(conf, i + 1, max_confidence) EXCEPT !.calls = call \o @]
          ELSE LET confidence == conf[i]
                   m == IF confidence > max_confidence THEN confidence
                        ELSE max_confidence
               IN IF Detected(confidence, ALERTS[i])
                  THEN [alert_detected |-> TRUE, current_alert |-> i,
                        max_confidence |-> m, calls |-> call]
                  ELSE [ScanAlerts(conf, i + 1, m) EXCEPT !.calls = call \o @]

\* main.py:436-453: the effect of the scan on the source's state.
Detection(st, scan) ==
  [st EXCEPT !.last_alert_name =
                IF scan.alert_detected THEN ALERTS[scan.current_alert].name ELSE @,
             !.total_detections = IF scan.alert_detected THEN @ + 1 ELSE @,
             !.last_confidence = scan.max_confidence,
             !.consecutive_detections = IF scan.alert_detected THEN @ + 1 ELSE 0]

\* A notification rule without the first-detection branch.
ShouldNotifyAfterCooldown(st, detected, now) ==
  /\ detected
  /\ now - st.last_notification_time > st.notification_cooldown
  /\ st.consecutive_detections >= 3

\* A notification rule without the cooldown.
ShouldNotifyEveryDetection(st, detected, now) ==
  /\ detected
  /\ \/ ~st.last_alert_state
     \/ st.consecutive_detections >= 3

\* A notification rule with the first-detection branch alone.
ShouldNotifyOnce(st, detected, now) ==
  /\ detected
  /\ ~st.last_alert_state

\* main.py:456-463
ShouldNotify(st, detected, now) ==
  /\ detected
  /\ \/ ~st.last_alert_state
     \/ /\ now - st.last_notification_time > st.notification_cooldown
        /\ st.consecutive_detections >= 3

\* main.py:465-469: the alert's notification is put on the queue.
AlertNotified(st, scan, now, source) ==
  /\ ShouldNotify(st, scan.alert_detected, now)
  /\ scan.current_alert # 0
  /\ add_notification([kind |-> "alert", source |-> source,
                       alert |-> scan.current_alert])

\* main.py:465-479
Notification(st, scan, now, source) ==
  LET sent == AlertNotified(st, scan, now, source)
  IN [st EXCEPT !.last_notification_time = IF sent THEN now ELSE @,
                !.notifications_sent = IF sent THEN @ + 1 ELSE @,
                !.last_alert_state = scan.alert_detected]

EnabledAlerts == {i \in AlertIdx : ALERTS[i].enabled}

\* A for loop that a failed capture breaks out of.
AbortCycle(i, failed) == IF failed THEN Len(SOURCE_WINDOWS) + 1 ELSE i + 1

\* main.py:339, 383, 481-484: after the iteration at index i, whether its
\* capture failed (`continue`) or not, the for loop goes on to the next
\* source.
NextSource(i, failed) == i + 1

\* main.py:339-485: one iteration of the for loop, for source s, when
\* capture_window returns shot, check_for_alert returns conf[i] for alert i
\* and optimize_capture_method would return optimized.
Iteration(s, shot, conf, optimized) ==
  /\ pc = "for"
  /\ idx = s
  /\ idx' = NextSource(idx, shot = "None")
  /\ LET st0 == [windows_state[s] EXCEPT !.total_captures = @ + 1]
         opt == IF s = 1 THEN "obs_modern_printwindow" ELSE optimized
         st1 == BlackScreenCheck(st0, shot, current_time, s)
         scan == ScanAlerts(conf, 1, 0)
         st2 == Detection(st1, scan)
         st3 == Notification(st2, scan, current_time, s)
         alerted == AlertNotified(st2, scan, current_time, s)
     IN IF shot = "None"
        THEN /\ windows_state' = [windows_state EXCEPT ![s] = CaptureFailed(st0, opt)]
             /\ source_name' = s
             /\ screenshot' = shot
             /\ enqueued' = {}
             /\ UNCHANGED << alert_detected, current_alert, notified_alert,
                             checked >>
        ELSE /\ windows_state' = [windows_state EXCEPT ![s] = st3]
             /\ source_name' = s
             /\ screenshot' = shot
             /\ alert_detected' = scan.alert_detected
             /\ current_alert' = scan.current_alert
             /\ checked' = scan.calls
             /\ enqueued' =
                  (IF BlackNotified(st0, shot, current_time, s)
                   THEN {[kind |-> "black", source |-> s, alert |-> 0]} ELSE {})
                  \cup
                  (IF alerted
                   THEN {[kind |-> "alert", source |-> s, alert |-> scan.current_alert]}
                   ELSE {})
             /\ notified_alert' =
                  IF alerted THEN [notified_alert EXCEPT ![s] = scan.current_alert]
                  ELSE notified_alert
  /\ UNCHANGED << current_time, pc, pause_flags, web_pc, capvars, engine >>

\* main.py:339-485 with every outcome of the capture and of the matching.
\* check_for_alert is called on a frame only, optimize_capture_method after
\* a failed capture only.
ProcessSource(s) ==
  \/ \E optimized \in OptimizedMethods :
       Iteration(s, "None", [i \in EnabledAlerts |-> 0], optimized)
  \/ \E shot \in Screenshots \ {"None"}, conf \in [EnabledAlerts -> Confidences] :
       Iteration(s, shot, conf, "None")

\* ------------------------------------------------------------- the main loop
\* main.py:301-315: a cycle that finds the system paused.
PausedCycle ==
  /\ pc = "top"
  /\ is_system_paused
  /\ \E dt \in 1..MaxStep :
       /\ current_time + dt <= MaxTime
       /\ current_time' = current_time + dt
  /\ UNCHANGED << pc, idx, windows_state, pause_flags, web_pc, locals, capvars, engine >>

\* main.py:301-339: a cycle that is not paused enters the for loop; the
\* model's clock runs up to limit.
StartCycle(limit) ==
  /\ pc = "top"
  /\ ~is_system_paused
  /\ \E dt \in 1..MaxStep :
       /\ current_time + dt <= limit
       /\ current_time' = current_time + dt
  /\ pc' = "for"
  /\ idx' = 1
  /\ UNCHANGED << windows_state, pause_flags, web_pc, locals, capvars, engine >>

BeginCycle == StartCycle(MaxTime)

\* main.py:487-519: after the last source.  The locals of the for loop are
\* assigned again before they are read, so the model forgets them here.
EndCycle ==
  /\ pc = "for"
  /\ idx > Cardinality(Watched)
  /\ pc' = "top"
  /\ source_name' = 0
  /\ screenshot' = "None"
  /\ alert_detected' = FALSE
  /\ current_alert' = 0
  /\ enqueued' = {}
  /\ checked' = << >>
  /\ UNCHANGED << current_time, idx, windows_state, pause_flags, web_pc,
                  notified_alert, capvars, engine >>

\* ------------------------------------------------------ pause, other threads
\* main.py:46-52
pause_system ==
  /\ SYSTEM_PAUSED' = TRUE
  /\ system_paused' = TRUE
  /\ UNCHANGED << current_time, pc, idx, windows_state, web_pc, locals, capvars, engine >>

\* main.py:55-61
resume_system ==
  /\ SYSTEM_PAUSED' = FALSE
  /\ system_paused' = FALSE
  /\ UNCHANGED << current_time, pc, idx, windows_state, web_pc, locals, capvars, engine >>

\* webapp.py:325: the dashboard's toggle flips its own flag...
api_toggle_pause ==
  /\ web_pc = "idle"
  /\ system_paused' = ~system_paused
  /\ web_pc' = "notify"
  /\ UNCHANGED << current_time, pc, idx, windows_state, SYSTEM_PAUSED,
                  locals, capvars, engine >>

\* webapp.py:326, main.py:82-89: ...then calls webapp_pause_callback.
webapp_pause_callback ==
  /\ web_pc = "notify"
  /\ SYSTEM_PAUSED' = system_paused
  /\ web_pc' = "idle"
  /\ UNCHANGED << current_time, pc, idx, windows_state, system_paused,
                  locals, capvars, engine >>

Next ==
  \/ PausedCycle
  \/ BeginCycle
  \/ \E s \in Watched : ProcessSource(s)
  \/ EndCycle
  \/ pause_system
  \/ resume_system
  \/ api_toggle_pause
  \/ webapp_pause_callback

Spec == Init /\ [][Next]_vars


\* The loop with an alert that stays on screen: every capture returns a
\* frame and every frame shows an enabled alert at or above its threshold.
SteadySource(s) ==
  \E shot \in Screenshots \ {"None"}, conf \in [EnabledAlerts -> Confidences] :
    /\ ScanAlerts(conf, 1, 0).alert_detected
    /\ Iteration(s, shot, conf, "None")

\* With steady inputs the model is small and its clock may run longer.
LiveMaxTime == MaxTime + MaxStep + 1

BeginCycleLive == StartCycle(LiveMaxTime)

NextSteady ==
  \/ BeginCycleLive
  \/ \E s \in Watched : SteadySource(s)
  \/ EndCycle

\* main.py:299-519: the loop is a thread of its own that always takes its
\* next step (every sleep is finite).
LiveSpec ==
  /\ Init
  /\ [][NextSteady]_vars
  /\ WF_vars(BeginCycleLive)
  /\ WF_vars(\E s \in Watched : SteadySource(s))
  /\ WF_vars(EndCycle)

\* The loop with both configured sources, for a few cycles, with captures
\* that fail (capture_window returns None, also when the capture raised:
\* capture.py:1086-1088) and matches that raise.
SourcesMaxTime == StartTime + MaxStep + 1

BeginCycleSources == StartCycle(SourcesMaxTime)

ProcessSourceFaulty(s) ==
  \/ Iteration(s, "None", [i \in EnabledAlerts |-> 0], "None")
  \/ \E conf \in [EnabledAlerts -> Confidences \cup {Raised}] :
       Iteration(s, "frame", conf, "None")

InitSources ==
  /\ InitWith(Len(SOURCE_WINDOWS))
  /\ NewWindowCapture(SOURCE_WINDOWS[1].window_title)
  /\ NoMatchCall
  /\ NoDetectCall
  /\ NoStores
  /\ NoScanCall

NextSources ==
  \/ BeginCycleSources
  \/ \E s \in Watched : ProcessSourceFaulty(s)
  \/ EndCycle

SpecSources == InitSources /\ [][NextSources]_vars

\* ------------------------------------------------------------- capture.py
\* capture.py:45-51
CaptureMethod ==
  [ WIN32_GDI |-> "win32_gdi",
    WIN32_PRINT_WINDOW |-> "print_window",
    MSS_MONITOR |-> "mss_monitor",
    PIL_IMAGEGRAB |-> "pil_imagegrab",
    OBS_MODERN_PRINTWINDOW |-> "obs_modern_printwindow" ]

AllMethods == {CaptureMethod[k] : k \in DOMAIN CaptureMethod}

\* An order of the standard methods that starts with the GDI copy.
GdiFirstOrder ==
  << CaptureMethod.WIN32_GDI, CaptureMethod.WIN32_PRINT_WINDOW,
     CaptureMethod.MSS_MONITOR, CaptureMethod.PIL_IMAGEGRAB >>

\* capture.py:733-738
methods_order ==
  << CaptureMethod.WIN32_PRINT_WINDOW, CaptureMethod.WIN32_GDI,
     CaptureMethod.MSS_MONITOR, CaptureMethod.PIL_IMAGEGRAB >>

\* capture.py:721: "last war" in self.window_title.lower(), over the
\* configured titles.
IsLastWar(title) == title = "Last War-Survival Game"

\* A failure of the remembered method that leaves it remembered.
KeepUsual(method) == method

\* capture.py:712-718: the remembered method returned no frame (or raised).
AfterUsualFailure(method) == "None"

\* capture.py:741-768: the methods of methods_order from the i-th on, up to
\* the first that returns a frame.  ok holds the methods that return one.
RECURSIVE TryMethods(_, _, _)
TryMethods(i, ok, tried) ==
  IF i > Len(methods_order)
  THEN [attempted |-> tried, img |-> "None", last_successful_method |-> "None"]
  ELSE LET capture_method == methods_order[i]
       IN IF capture_method \in ok
          THEN [attempted |-> Append(tried, capture_method), img |-> "img",
                last_successful_method |-> capture_method]
          ELSE TryMethods(i + 1, ok, Append(tried, capture_method))

\* capture.py:701-768: steps 4 to 6 of capture for a window that was
\* located.  last is last_successful_method, ok the methods that return a
\* frame when first invoked in this call, retry whether the remembered
\* method returns one when it is invoked a second time.
TryCapture(title, last, ok, retry) ==
  LET usual == last # "None" /\ last # CaptureMethod.OBS_MODERN_PRINTWINDOW
  IN IF usual /\ last \in ok
     THEN [attempted |-> << last >>, img |-> "img", last_successful_method |-> last]
     ELSE LET last4 == IF usual THEN AfterUsualFailure(last) ELSE last
              tried4 == IF usual THEN << last >> ELSE << >>
              ok4 == IF usual
                     THEN (ok \ {last}) \cup (IF retry THEN {last} ELSE {})
                     ELSE ok
              obs == IsLastWar(title) /\ last4 = "None"
          IN IF obs /\ CaptureMethod.OBS_MODERN_PRINTWINDOW \in ok4
             THEN [attempted |-> Append(tried4, CaptureMethod.OBS_MODERN_PRINTWINDOW),
                   img |-> "img",
                   last_successful_method |-> CaptureMethod.OBS_MODERN_PRINTWINDOW]
             ELSE TryMethods(1, ok4,
                             IF obs
                             THEN Append(tried4, CaptureMethod.OBS_MODERN_PRINTWINDOW)
                             ELSE tried4)

\* Statistics that count every call that reached the methods as a success.
CountEveryCall(stats, image) ==
  [stats EXCEPT !.total_attempts = @ + 1,
                !.successful_captures = @ + 1,
                !.last_error = IF image # "None" THEN "None"
                               ELSE "all methods failed"]

\* capture.py:670, 709-710, 725-727, 749-751, 762: the statistics after a
\* call that reached the methods and returned image.
AfterMethods(stats, image) ==
  [stats EXCEPT !.total_attempts = @ + 1,
                !.successful_captures = IF image # "None" THEN @ + 1 ELSE @,
                !.last_error = IF image # "None" THEN "None"
                               ELSE "all methods failed"]

\* capture.py:816-818: the methods that return a frame to capture among
\* those, ok, whose Win32 calls give one: _update_method_stats finds the
\* method's entry or raises.
Returning(entries, ok) == IF entries THEN ok ELSE {}

\* capture.py:721-730: capture_with_obs_modern is not called in a try, so the
\* KeyError of a call of it leaves capture.
Raises(entries, tried) ==
  /\ ~entries
  /\ \E k \in DOMAIN tried : tried[k] = CaptureMethod.OBS_MODERN_PRINTWINDOW

\* The methods of tried up to the first m.
UpTo(tried, m) ==
  SubSeq(tried, 1, CHOOSE k \in DOMAIN tried :
                     tried[k] = m /\ \A j \in 1..(k - 1) : tried[j] # m)

\* capture.py:668-768: one call of WindowCapture.capture.  valid is what
\* is_window_valid returns for the handle held, found and refound what
\* find_window returns in steps 2 and 3, dims_ok whether the window has a
\* width and a height.  Every capture_with_ method ends in
\* _update_method_stats (capture.py:477, 485, ...); without the entries of
\* method_stats it raises KeyError there, which steps 4 and 6 catch and
\* step 5 does not.
capture(valid, found, dims_ok, refound, ok, retry) ==
  /\ capture_stats.total_attempts < MaxCalls
  /\ LET invalid == hwnd /\ ~valid
         error1 == IF invalid THEN "invalid handle" ELSE capture_stats.last_error
         hwnd1 == hwnd /\ valid
         r == TryCapture(window_title, last_successful_method,
                         Returning(method_stats, ok), retry /\ method_stats)
     IN IF ~hwnd1 /\ ~found
        THEN /\ hwnd' = FALSE
             /\ capture_stats' = [capture_stats EXCEPT !.total_attempts = @ + 1,
                                                       !.last_error = "window not found"]
             /\ attempted' = << >>
             /\ img' = "None"
             /\ UNCHANGED last_successful_method
        ELSE IF ~dims_ok /\ ~refound
        THEN /\ hwnd' = FALSE
             /\ capture_stats' = [capture_stats EXCEPT !.total_attempts = @ + 1,
                                                       !.last_error = "handle not reobtained"]
             /\ attempted' = << >>
             /\ img' = "None"
             /\ UNCHANGED last_successful_method
        ELSE IF Raises(method_stats, r.attempted)
        THEN /\ hwnd' = TRUE
             /\ capture_stats' = [capture_stats EXCEPT !.total_attempts = @ + 1]
             /\ attempted' = UpTo(r.attempted, CaptureMethod.OBS_MODERN_PRINTWINDOW)
             /\ img' = "None"
             /\ last_successful_method' = "None"
        ELSE /\ hwnd' = TRUE
             /\ capture_stats' = AfterMethods(capture_stats, r.img)
             /\ attempted' = r.attempted
             /\ img' = r.img
             /\ last_successful_method' = r.last_successful_method
  /\ remembered' = last_successful_method
  /\ works' = ok
  /\ UNCHANGED << window_title, method_stats, loop, engine >>

\* capture.py:668-768 with every outcome of the window lookups and of the
\* capture methods.
CaptureCall ==
  \E valid, found, dims_ok, refound, retry \in BOOLEAN, ok \in SUBSET AllMethods :
    capture(valid, found, dims_ok, refound, ok, retry)

\* capture.py:784-814: the handle and the remembered method are forgotten
\* and the per-method statistics are built again.
cleanup ==
  /\ hwnd' = FALSE
  /\ last_successful_method' = "None"
  /\ method_stats' = TRUE
  /\ UNCHANGED << window_title, capture_stats, remembered, works, attempted, img,
                  loop, engine >>

\* capture.py:867-877: a WindowCapture is made for each configured window.
InitCapture ==
  /\ InitWith(1)
  /\ \E s \in Sources : NewWindowCapture(SOURCE_WINDOWS[s].window_title)
  /\ NoMatchCall
  /\ NoDetectCall
  /\ NoStores
  /\ NoScanCall

NextCapture ==
  \/ CaptureCall
  \/ cleanup

SpecCapture == InitCapture /\ [][NextCapture]_vars

\* capture.py:668, 1296, 1328: the first calls of capture of a WindowCapture
\* that was asked for one of the standard methods, through the method
\* argument or preferred_method.  The body of capture reads neither.
HintedCapture ==
  /\ capture_stats.total_attempts < HintedCalls
  /\ CaptureCall

\* capture.py:1216-1228: reset_capture_statistics replaces the statistics of
\* every capturer; the new dict has an empty method_stats.
reset_capture_statistics ==
  /\ capture_stats' = [total_attempts |-> 0, successful_captures |-> 0,
                       last_error |-> "None"]
  /\ method_stats' = FALSE
  /\ UNCHANGED << window_title, hwnd, last_successful_method, remembered,
                  works, attempted, img, loop, engine >>

NextStats ==
  \/ HintedCapture
  \/ reset_capture_statistics

SpecStats == InitCapture /\ [][NextStats]_vars

InitHint ==
  /\ InitWith(1)
  /\ \E s \in Sources : NewWindowCapture(SOURCE_WINDOWS[s].window_title)
  /\ NoMatchCall
  /\ NoDetectCall
  /\ NoScanCall
  /\ EmptyCache /\ NoLearning /\ EmptyQueue /\ NoFindCall
  /\ NoIteration /\ NoPauseCall /\ Startup(<< >>) /\ Configured(<< >>)
  /\ \E m \in 1..Len(methods_order) : method_hint = methods_order[m]

NextHint == HintedCapture

SpecHint == InitHint /\ [][NextHint]_vars

\* ------------------------------------------------------------ detection.py
\* The confidences the scan of one template variant may end with, percent.
MatchConfidences == {60, 75, 90}

\* The thresholds check_multiple_templates may be called with, percent.
MatchThresholds == {70, 80}

\* detection.py:358: the values of match_strategy, one of them unknown.
Strategies == {"best", "first", "all", "other"}

\* A template variant: whether load_template_cached and the preprocessing
\* give an image (detection.py:373-380), and the confidence its scan ends
\* with.
TemplateOutcomes ==
  [loads : {TRUE}, confidence : MatchConfidences]
    \cup {[loads |-> FALSE, confidence |-> 0]}

TemplateLists == UNION {[1..n -> TemplateOutcomes] : n \in 0..MaxTemplates}

\* detection.py:365-366, 406-407: check_multiple_templates returns None.
NoMatch == [found |-> FALSE, confidence |-> 0, template |-> 0, match_count |-> 0]

\* A loop over the variants that never stops early.
NeverStop(strategy) == FALSE

\* detection.py:399-400: the loop over the variants stops after a match.
StopAfterMatch(strategy) == strategy = "first"

\* detection.py:371-404: the loop over the variants from the i-th on.
\* results are the matches kept so far, loaded the variants
\* load_template_cached was called for.
RECURSIVE CollectMatches(_, _, _, _, _, _)
CollectMatches(paths, i, threshold, strategy, results, loaded) ==
  IF i > Len(paths)
  THEN [results |-> results, loaded |-> loaded]
  ELSE LET template == paths[i]
           loaded1 == Append(loaded, i)
       IN IF ~template.loads
          THEN CollectMatches(paths, i + 1, threshold, strategy, results, loaded1)
          ELSE IF template.confidence >= threshold
          THEN LET results1 ==
                     Append(results, [found |-> TRUE,
                                      confidence |-> template.confidence,
                                      template |-> i, match_count |-> 1])
               IN IF StopAfterMatch(strategy)
                  THEN [results |-> results1, loaded |-> loaded1]
                  ELSE CollectMatches(paths, i + 1, threshold, strategy,
                                      results1, loaded1)
          ELSE CollectMatches(paths, i + 1, threshold, strategy, results, loaded1)

\* The last of the results.
LastResult(results) == results[Len(results)]

\* detection.py:410: max(results, key=lambda x: x['confidence']), the first
\* of the results with the highest confidence.
MaxByConfidence(results) ==
  results[CHOOSE i \in 1..Len(results) :
            /\ \A j \in 1..Len(results) :
                 results[j].confidence <= results[i].confidence
            /\ \A j \in 1..(i - 1) :
                 results[j].confidence < results[i].confidence]

\* detection.py:358-423
check_multiple_templates(paths, threshold, strategy) ==
  IF paths = << >>
  THEN [result |-> NoMatch, loaded |-> << >>]
  ELSE LET c == CollectMatches(paths, 1, threshold, strategy, << >>, << >>)
       IN [loaded |-> c.loaded,
           result |->
             IF c.results = << >> THEN NoMatch
             ELSE IF strategy = "best" THEN MaxByConfidence(c.results)
             ELSE IF strategy = "first" THEN c.results[1]
             ELSE IF strategy = "all"
             THEN [found |-> TRUE,
                   confidence |-> MaxByConfidence(c.results).confidence,
                   template |-> 0, match_count |-> Len(c.results)]
             ELSE MaxByConfidence(c.results)]

\* detection.py:358-423: the call is made.
CheckTemplates ==
  /\ match_pc = "call"
  /\ LET r == check_multiple_templates(template_paths, match_threshold,
                                       match_strategy)
     IN /\ match_result' = r.result
        /\ loaded_templates' = r.loaded
  /\ match_pc' = "done"
  /\ UNCHANGED << template_paths, match_threshold, match_strategy, loop, capvars, stores,
                  detectvars, scanvars >>

\* A call of check_multiple_templates with any variants, threshold and
\* strategy.
InitMatch ==
  /\ InitWith(1)
  /\ NewWindowCapture(SOURCE_WINDOWS[1].window_title)
  /\ \E paths \in TemplateLists, threshold \in MatchThresholds,
        strategy \in Strategies :
       MatchCall(paths, threshold, strategy)
  /\ NoDetectCall
  /\ NoStores
  /\ NoScanCall

NextMatch == CheckTemplates

SpecMatch == InitMatch /\ [][NextMatch]_vars

\* ------------------------------------------- detection.py check_for_alert
\* Confidences and thresholds of check_for_alert are in thousandths.
\* The confidences the scan of one variant may end with.
DetectConfidences == {600, 680, 780, 900}

DetectOutcomes ==
  [loads : {TRUE}, confidence : DetectConfidences]
    \cup {[loads |-> FALSE, confidence |-> 0]}

DetectLists == UNION {[1..n -> DetectOutcomes] : n \in 0..MaxTemplates}

\* learning_system.py:131-163: the entries calculate_threshold_adjustment
\* may have stored for an alert, here after a false positive rate of one
\* half (confidence = 1 - rate), the suggestion within [0.5, 0.95], with
\* fewer than 10 samples and with 10.
Adjustments ==
  {NoAdjustment}
    \cup [samples : {9, 10},
          suggested_threshold : {Rational(500, 1), Rational(900, 1)},
          confidence : {Rational(1, 2)}]

\* config.py ALERTS: the alert with its threshold in thousandths.
Thousandths(alert) == [alert EXCEPT !.threshold = @ * 10]

\* An adjustment applied whatever its samples.
AppliesAlways(adjustment) == adjustment # NoAdjustment

\* learning_system.py:250: adjustment and adjustment['samples'] >= 10
Applies(adjustment) == adjustment # NoAdjustment /\ adjustment.samples >= 10

\* A blend that takes the suggested threshold whole.
FullWeight(adjustment) == Rational(1, 1)

\* learning_system.py:255: confidence * 0.3
BlendWeight(adjustment) ==
  Rational(3 * adjustment.confidence.num, 10 * adjustment.confidence.den)

\* learning_system.py:255:
\* default_threshold * (1 - confidence * 0.3) + suggested * (confidence * 0.3)
Blend(adjustment, default_threshold) ==
  LET weight == BlendWeight(adjustment)
      suggested == adjustment.suggested_threshold
  IN Rational(default_threshold * suggested.den * (weight.den - weight.num)
                + suggested.num * weight.num,
              weight.den * suggested.den)

\* learning_system.py:244-260, the blend brought back to the unit of the
\* thresholds.
get_adjusted_threshold(adjustment, default_threshold) ==
  IF Applies(adjustment)
  THEN LET adjusted == Blend(adjustment, default_threshold)
       IN adjusted.num \div adjusted.den
  ELSE default_threshold

\* detection.py:451-541: the template branch of check_for_alert for an
\* enabled alert and a screenshot.  filtered is the answer of
\* should_filter_detection for the matched region.
check_for_alert(alert, paths, strategy, adjustment, filtered) ==
  IF paths = << >>
  THEN [confidence |-> 0, detection_success |-> FALSE,
        adjusted_threshold |-> alert.threshold,
        matching |-> check_multiple_templates(paths, alert.threshold, strategy)]
  ELSE
  LET original_threshold == alert.threshold
      adjusted_threshold == get_adjusted_threshold(adjustment, original_threshold)
      matching == check_multiple_templates(paths, adjusted_threshold, strategy)
      matched == IF matching.result.found THEN matching.result.confidence ELSE 0
      confidence ==
        IF matching.result.found /\ matched >= adjusted_threshold /\ filtered
        THEN matched \div 2
        ELSE matched
  IN [confidence |-> confidence,
      detection_success |-> confidence >= adjusted_threshold,
      adjusted_threshold |-> adjusted_threshold,
      matching |-> matching]

\* main.py:423-442: the loop's body for one enabled alert: check_for_alert
\* and the test of its confidence.
CheckAlert ==
  /\ detect_pc = "call"
  /\ LET r == check_for_alert(Thousandths(ALERTS[detect_alert]), template_paths,
                              match_strategy, threshold_adjustment,
                              filter_detection)
     IN /\ detect_result' = [confidence |-> r.confidence,
                             detection_success |-> r.detection_success,
                             adjusted_threshold |-> r.adjusted_threshold]
        /\ match_threshold' = r.adjusted_threshold
        /\ match_result' = r.matching.result
        /\ loaded_templates' = r.matching.loaded
        /\ alert_counted' = Detected(r.confidence, Thousandths(ALERTS[detect_alert]))
  /\ detect_pc' = "done"
  /\ match_pc' = "done"
  /\ UNCHANGED << template_paths, match_strategy, detect_alert,
                  threshold_adjustment, filter_detection, loop, capvars, stores,
                  scanvars >>

\* The loop over ALERTS reaches an enabled alert with any variants, strategy,
\* learning data and filter answer.
InitDetect ==
  /\ InitWith(1)
  /\ NewWindowCapture(SOURCE_WINDOWS[1].window_title)
  /\ \E paths \in DetectLists, strategy \in Strategies :
       MatchCall(paths, 0, strategy)
  /\ \E a \in EnabledAlerts, adjustment \in Adjustments, filtered \in BOOLEAN :
       DetectCall(a, adjustment, filtered)
  /\ NoScanCall
  /\ NoStores

NextDetect == CheckAlert

SpecDetect == InitDetect /\ [][NextDetect]_vars

\* --------------------------------- detection.py advanced_template_matching
\* Scales and scores are in thousandths, aspect ratios in hundredths, sizes
\* in pixels; the comparisons are those of the code in exact arithmetic.
\* The sides of the templates and the frames of the calls.
TemplateSides == {30, 80}
FrameSizes == {[w |-> 100, h |-> 100], [w |-> 400, h |-> 300]}
TemplateSizes == [w : TemplateSides, h : TemplateSides]

\* The values of max_val cv2.minMaxLoc may give for one pair and one method.
Scores == {300, 960}

\* The values validate_match_with_features may return.
ValidationScores == {0, 500}

Max(a, b) == IF a >= b THEN a ELSE b
Min(a, b) == IF a <= b THEN a ELSE b

\* detection.py:151: min_scale <= s
AtLeastMinScale(s, size) ==
  /\ s >= 500
  /\ (s * size.w >= 50000 \/ s * size.h >= 50000)

\* detection.py:152: s <= max_scale
AtMostMaxScale(s, size, frame) ==
  /\ s <= 2000
  /\ s * size.w <= 800 * frame.w
  /\ s * size.h <= 800 * frame.h

\* detection.py:164: min_scale < s
MinScaleBelow(s, size) ==
  /\ 500 < s
  /\ (50000 < s * size.w \/ 50000 < s * size.h)

\* detection.py:167-168: s < max_scale
MaxScaleAbove(s, size, frame) ==
  /\ s < 2000
  /\ s * size.w < 800 * frame.w
  /\ s * size.h < 800 * frame.h

\* detection.py:151: min_scale where it is below 0.7, the start of line 165.
min_scale(size) == Max(500, Min(50000 \div size.w, 50000 \div size.h))

\* detection.py:159: np.arange(0.7, 1.31, 0.05)
FineScales == [k \in 1..13 |-> 700 + 50 * (k - 1)]

\* detection.py:168: the values np.arange(1.4, ..., 0.1) can reach.
HighScales == [k \in 1..7 |-> 1300 + 100 * k]

\* detection.py:172
aspect_ratios == << 85, 90, 95, 100, 105, 110, 115 >>

\* detection.py:175-178: the weights of the two methods, in thousandths.
methods == << 1000, 900 >>

\* detection.py:156-169: scales, in the order they are appended.
Scales(size, frame) ==
  LET InRange(s) == AtLeastMinScale(s, size) /\ AtMostMaxScale(s, size, frame)
      fine == SelectSeq(FineScales, InRange)
      low == IF MinScaleBelow(700, size)
             THEN LET first == min_scale(size)
                      n == (700 - first + 99) \div 100
                  IN [k \in 1..n |-> first + 100 * (k - 1)]
             ELSE << >>
      Below(s) == MaxScaleAbove(s - 100, size, frame)
      high == IF MaxScaleAbove(1300, size, frame)
              THEN SelectSeq(HighScales, Below)
              ELSE << >>
  IN fine \o low \o high

\* detection.py:186-187: the size of the resized template.
NewSize(size, scale, aspect_ratio) ==
  [w |-> (size.w * scale * aspect_ratio) \div 100000,
   h |-> (size.h * scale) \div 1000]

\* detection.py:190-193: the pair is skipped.
Skipped(new, frame) ==
  \/ new.w < 20 \/ new.h < 20
  \/ new.w * 10 > frame.w * 9 \/ new.h * 10 > frame.h * 9

\* detection.py:200-218: one method's score against the best match so far.
Better(best, max_val, method, scale, aspect_ratio) ==
  LET weighted_confidence == (max_val * methods[method]) \div 1000
  IN IF weighted_confidence > best.weighted_confidence
     THEN [found |-> TRUE, confidence |-> max_val,
           weighted_confidence |-> weighted_confidence,
           scale |-> scale, aspect_ratio |-> aspect_ratio, method |-> method]
     ELSE best

\* detection.py:147-180: the sizes are read and scales is built.
BeginScan ==
  /\ scan_pc = "call"
  /\ scan_scales' = Scales(scan_template, scan_frame)
  /\ scan_pc' = "scan"
  /\ UNCHANGED << scan_template, scan_frame, scan_threshold, scan_i, scan_j,
                  best_match, evaluated, scan_result, loop, capvars, stores,
                  matchvars, detectvars >>

\* detection.py:182-222: one turn of the inner loop, for the pair
\* (scales[scan_i], aspect_ratios[scan_j]).
ScanPair ==
  /\ scan_pc = "scan"
  /\ scan_i <= Len(scan_scales)
  /\ LET scale == scan_scales[scan_i]
         aspect_ratio == aspect_ratios[scan_j]
         new == NewSize(scan_template, scale, aspect_ratio)
     IN IF Skipped(new, scan_frame)
        THEN UNCHANGED << best_match, evaluated >>
        ELSE /\ \E v1 \in Scores, v2 \in Scores :
                  best_match' = Better(Better(best_match, v1, 1, scale, aspect_ratio),
                                       v2, 2, scale, aspect_ratio)
             /\ evaluated' = evaluated + 1
  /\ IF scan_j < Len(aspect_ratios)
     THEN scan_j' = scan_j + 1 /\ scan_i' = scan_i
     ELSE scan_j' = 1 /\ scan_i' = scan_i + 1
  /\ UNCHANGED << scan_template, scan_frame, scan_threshold, scan_scales,
                  scan_result, scan_pc, loop, capvars, stores, matchvars, detectvars >>

\* detection.py:224-234: the validation by features and the return.
FinishScan ==
  /\ scan_pc = "scan"
  /\ scan_i > Len(scan_scales)
  /\ \E validation_score \in ValidationScores :
       LET validated ==
             IF best_match.found
                /\ best_match.confidence * 10 >= scan_threshold * 8
                /\ validation_score > 0
             THEN [best_match EXCEPT
                     !.confidence =
                        Min(1000, (@ * (1000 + validation_score \div 5)) \div 1000)]
             ELSE best_match
       IN /\ best_match' = validated
          /\ scan_result' = IF validated.found /\ validated.confidence >= scan_threshold
                            THEN validated
                            ELSE NoBestMatch
  /\ scan_pc' = "done"
  /\ UNCHANGED << scan_template, scan_frame, scan_threshold, scan_scales,
                  scan_i, scan_j, evaluated, loop, capvars, stores, matchvars,
                  detectvars >>

\* advanced_template_matching is called with a template and a frame of any
\* of the sizes.
InitScan ==
  /\ InitWith(1)
  /\ NewWindowCapture(SOURCE_WINDOWS[1].window_title)
  /\ NoMatchCall
  /\ NoDetectCall
  /\ NoStores
  /\ \E size \in TemplateSizes, frame \in FrameSizes, threshold \in {700, 800} :
       ScanCall(size, frame, threshold, "call")

NextScan == BeginScan \/ ScanPair \/ FinishScan

SpecScan == InitScan /\ [][NextScan]_vars

\* ----------------------------------------------- detection.py template cache
\* detection.py:67: the size above which the cleanup empties the cache.
CacheCeiling == 20
\* detection.py:69: the entries the cleanup keeps.
CacheKept == 10
\* main.py:325: the cleanup is called every CleanupPeriod cycles.
CleanupPeriod == 100

\* The template paths.  Which of the paths that are not cached is requested
\* makes no difference to the cache: it is the first of them.
Paths == 1..(MaxDecodes + 1)

\* What load_template_cached finds on disk for a path that is not cached:
\* no file, a file cv2.imread cannot decode, an image.
Files == {"missing", "unreadable", "image"}

\* A cache that is never hit.
NeverCached(cache, path) == FALSE

\* detection.py:74: template_path in detection_stats.template_cache
InCache(cache, path) == \E k \in DOMAIN cache : cache[k].path = path

\* detection.py:75: detection_stats.template_cache[template_path]
CachedBuffer(cache, path) ==
  cache[CHOOSE k \in DOMAIN cache : cache[k].path = path].buffer

\* detection.py:93: detection_stats.template_cache[template_path] = template;
\* a dict keeps the place of a key it already holds.
PutInCache(cache, path, buffer) ==
  IF \E k \in DOMAIN cache : cache[k].path = path
  THEN [k \in DOMAIN cache |->
          IF cache[k].path = path THEN [path |-> path, buffer |-> buffer]
          ELSE cache[k]]
  ELSE Append(cache, [path |-> path, buffer |-> buffer])

NotCached(cache) == {path \in Paths : ~\E k \in DOMAIN cache : cache[k].path = path}

FirstNotCached(cache) ==
  CHOOSE path \in NotCached(cache) : \A q \in NotCached(cache) : path <= q

\* detection.py:64-70
cleanup_template_cache_if_needed(cache) ==
  IF Len(cache) > CacheCeiling
  THEN SubSeq(cache, Len(cache) - CacheKept + 1, Len(cache))
  ELSE cache

\* detection.py:72-99
load_template_cached(path, file) ==
  /\ load_path' = path
  /\ IF InCache(template_cache, path)
     THEN /\ load_decoded' = FALSE
          /\ load_returned' = CachedBuffer(template_cache, path)
          /\ UNCHANGED << template_cache, decodes >>
     ELSE IF file # "image"
     THEN /\ load_decoded' = (file = "unreadable")
          /\ load_returned' = 0
          /\ UNCHANGED << template_cache, decodes >>
     ELSE /\ decodes < MaxDecodes
          /\ decodes' = decodes + 1
          /\ load_decoded' = TRUE
          /\ load_returned' = decodes'
          /\ template_cache' = PutInCache(template_cache, path, decodes')
  /\ UNCHANGED << total_cycles, loop, capvars, matchvars, detectvars, scanvars,
                  learnvars, queuevars, findvars, extras >>

\* A path that was loaded before and is still cached is requested; its file
\* is not looked at.
LoadCached ==
  \E k \in DOMAIN template_cache :
    load_template_cached(template_cache[k].path, "image")

\* A path that is not cached is requested.
LoadNew ==
  \E file \in Files : load_template_cached(FirstNotCached(template_cache), file)

\* main.py:299-326: a cycle begins, paused or not.
CacheCycle ==
  \E paused \in BOOLEAN :
    /\ total_cycles' = (total_cycles + 1) % CleanupPeriod
    /\ template_cache' =
         IF ~paused /\ total_cycles' = 0
         THEN cleanup_template_cache_if_needed(template_cache)
         ELSE template_cache
    /\ UNCHANGED << decodes, load_path, load_decoded, load_returned, loop,
                    capvars, matchvars, detectvars, scanvars, learnvars,
                    queuevars, findvars, extras >>

InitCache ==
  /\ InitWith(1)
  /\ NewWindowCapture(SOURCE_WINDOWS[1].window_title)
  /\ NoMatchCall
  /\ NoDetectCall
  /\ NoStores
  /\ NoScanCall

NextCache == LoadCached \/ LoadNew \/ CacheCycle

SpecCache == InitCache /\ [][NextCache]_vars

\* ------------------------------------------------------ learning_system.py
\* learning_system.py:233-234: the patterns kept for an alert.
PatternsKept == 20

\* The confidences of the validated detections, in hundredths.
ValidationConfidences == {60, 80}

\* learning_system.py:131-166: the adjustment of the alert after a
\* validation, from its statistics and the adjustment it had.
calculate_threshold_adjustment(stats, adjustment) ==
  LET tp == stats.true_positives
      fp == stats.false_positives
  IN IF tp + fp < 5
     THEN adjustment
     ELSE IF ~(10 * fp > 3 * (tp + fp))
     THEN adjustment
     ELSE LET new_threshold ==
                IF stats.max_invalid_confidence < stats.min_valid_confidence
                THEN Rational(stats.max_invalid_confidence
                                + stats.min_valid_confidence, 2)
                ELSE Rational(stats.sum_confidence_valid * 19,
                              20 * (IF tp = 0 THEN 1 ELSE tp))
          IN [samples |-> tp + fp,
              suggested_threshold |->
                RatMin(Rational(95, 1), RatMax(Rational(50, 1), new_threshold)),
              confidence |-> Rational(tp, tp + fp)]

\* learning_system.py:98-114: the statistics after a validation.
UpdateStats(stats, is_valid, confidence) ==
  IF is_valid
  THEN [stats EXCEPT
          !.true_positives = @ + 1,
          !.sum_confidence_valid = @ + confidence,
          !.min_valid_confidence = IF confidence < @ THEN confidence ELSE @]
  ELSE [stats EXCEPT
          !.false_positives = @ + 1,
          !.max_invalid_confidence = IF confidence > @ THEN confidence ELSE @]

\* Patterns that are all kept.
KeepAllPatterns(patterns, pattern) == Append(patterns, pattern)

\* learning_system.py:227-234: a pattern is added to those of the alert.
AddPattern(patterns, pattern) ==
  LET added == Append(patterns, pattern)
  IN IF Len(added) > PatternsKept
     THEN SubSeq(added, Len(added) - PatternsKept + 1, Len(added))
     ELSE added

\* learning_system.py:66-129: record_validation for the alert.  sampled
\* tells that a region came with the validation and that its sample was
\* saved and analysed.
record_validation(is_valid, confidence, sampled) ==
  /\ alert_stats' = UpdateStats(alert_stats, is_valid, confidence)
  /\ IF ~is_valid /\ sampled
     THEN /\ signatures' = signatures + 1
          /\ false_positive_patterns' =
               AddPattern(false_positive_patterns, signatures')
     ELSE UNCHANGED << false_positive_patterns, signatures >>
  /\ threshold_adjustment' =
       calculate_threshold_adjustment(alert_stats', threshold_adjustment)
  /\ UNCHANGED << detect_alert, filter_detection, detect_result, alert_counted,
                  detect_pc, loop, capvars, matchvars, scanvars, cachevars,
                  queuevars, findvars, extras >>

Validations == alert_stats.true_positives + alert_stats.false_positives

\* webapp.py:197-229: a validation without a region.
RecordValidation ==
  /\ Validations < MaxValidations
  /\ \E is_valid \in BOOLEAN, confidence \in ValidationConfidences :
       record_validation(is_valid, confidence, FALSE)

\* webapp.py:197-229: a validation of a detection of confidence 0.8, with
\* or without a region.
RecordFeedback ==
  /\ Validations < MaxFeedback
  /\ \E is_valid \in BOOLEAN, sampled \in BOOLEAN :
       record_validation(is_valid, 80, sampled)

InitLearning ==
  /\ InitWith(1)
  /\ NewWindowCapture(SOURCE_WINDOWS[1].window_title)
  /\ NoMatchCall
  /\ NoDetectCall
  /\ NoStores
  /\ NoScanCall

NextLearning == RecordValidation

SpecLearning == InitLearning /\ [][NextLearning]_vars

NextPatterns == RecordFeedback

SpecPatterns == InitLearning /\ [][NextPatterns]_vars

\* ------------------------------------------------------- notification queue
\* config.py:154 NOTIFICATION_QUEUE_SIZE, which main.py never reads.
QueueCapacity == 10

\* The notifications the main loop puts on the queue (main.py:397, 469).
Notifications ==
  [kind : {"alert", "black"}, source : {1}, alert : {0}]

\* main.py:96, 119: queue.Queue.put on a Queue() built without a maxsize.
put(queue, item) == Append(queue, item)

\* main.py:116-126: add_notification called by the main loop.
AddNotification ==
  /\ Len(notification_queue) < MaxPending
  /\ \E item \in Notifications :
       /\ notification_queue' = put(notification_queue, item)
       /\ put_returned' = << add_notification(item) >>
  /\ UNCHANGED << loop, capvars, matchvars, detectvars, scanvars, cachevars,
                  learnvars, findvars, extras >>

\* main.py:101-114: the worker thread takes the oldest item to display it.
ProcessNotification ==
  /\ notification_queue # << >>
  /\ notification_queue' = Tail(notification_queue)
  /\ UNCHANGED << put_returned, loop, capvars, matchvars, detectvars, scanvars,
                  cachevars, learnvars, findvars, extras >>

InitQueue ==
  /\ InitWith(1)
  /\ NewWindowCapture(SOURCE_WINDOWS[1].window_title)
  /\ NoMatchCall
  /\ NoDetectCall
  /\ NoStores
  /\ NoScanCall

NextQueue == AddNotification \/ ProcessNotification

SpecQueue == InitQueue /\ [][NextQueue]_vars

\* ------------------------------------------------------------ find_window
\* The characters titles are made of, and str.lower on them.
Letters == {"W", "w", "A", "a", "r"}

Lower == [c \in Letters |-> IF c = "W" THEN "w" ELSE IF c = "A" THEN "a" ELSE c]

\* str.lower of a title.
lower(text) == [i \in DOMAIN text |-> Lower[text[i]]]

\* Python's `sub in text` for strings.
Contains(sub, text) ==
  \E i \in 0..(Len(text) - Len(sub)) : SubSeq(text, i + 1, i + Len(sub)) = sub

\* self.window_title of the WindowCapture that searches, as characters.
SearchedTitle == << "W", "a" >>

\* The titles GetWindowText returns: the searched one, the searched one in
\* another case, two that contain it and one that does not.
WindowTexts ==
  { << "W", "a" >>, << "w", "A" >>, << "W", "a", "r" >>, << "r", "w", "A" >>,
    << "a", "r" >> }

\* What the Win32 calls of enum_callback return for one window: the title,
\* IsWindowVisible, the client rectangle's width and height and whether
\* showCmd is SW_SHOWMINIMIZED or SW_MINIMIZE.
Windows ==
  [text : WindowTexts, visible : BOOLEAN, width : {0, 1, 2}, height : {2},
   minimized : BOOLEAN]

\* The windows EnumWindows may enumerate; the handle of a window is its
\* position in the enumeration.
Desktops == UNION {[1..n -> Windows] : n \in 0..MaxWindows}

\* capture.py:215-250: enum_callback appends (hwnd, title, area, minimized)
\* for the visible windows whose title contains the searched one and whose
\* client rectangle is not empty.
RECURSIVE EnumWindows(_, _, _)
EnumWindows(windows, title, i) ==
  IF i > Len(windows) THEN << >>
  ELSE LET w == windows[i]
           rest == EnumWindows(windows, title, i + 1)
       IN IF /\ w.visible
             /\ Contains(lower(title), lower(w.text))
             /\ w.width > 0 /\ w.height > 0
          THEN << [hwnd |-> i, text |-> w.text, area |-> w.width * w.height,
                   minimized |-> w.minimized] >> \o rest
          ELSE rest

\* capture.py:262: the key (not x[3], x[2]) of a is greater than that of b.
KeyGreater(a, b) ==
  \/ ~a.minimized /\ b.minimized
  \/ a.minimized = b.minimized /\ a.area > b.area

\* capture.py:262: results.sort(key=..., reverse=True), a stable sort: the
\* greatest key first, equal keys in the order of the enumeration.
RECURSIVE SortResults(_)
SortResults(results) ==
  IF results = << >> THEN << >>
  ELSE LET first == CHOOSE i \in DOMAIN results :
                      /\ \A j \in DOMAIN results : ~KeyGreater(results[j], results[i])
                      /\ \A j \in 1..(i - 1) : KeyGreater(results[i], results[j])
           others == [j \in 1..(Len(results) - 1) |->
                        IF j < first THEN results[j] ELSE results[j + 1]]
       IN << results[first] >> \o SortResults(others)

\* capture.py:265-266: the first result whose title is the searched one,
\* 0 for None.
ExactMatch(results, title) ==
  LET exact == {i \in DOMAIN results : lower(results[i].text) = lower(title)}
  IN IF exact = {} THEN 0
     ELSE results[CHOOSE i \in exact : \A j \in exact : i <= j].hwnd

\* capture.py:213-287: find_window on the windows enumerated.
find_window(windows, title) ==
  LET results == SortResults(EnumWindows(windows, title, 1))
      exact_match == ExactMatch(results, title)
  IN IF results # << >>
     THEN [hwnd |-> IF exact_match # 0 THEN exact_match ELSE results[1].hwnd,
           returned |-> TRUE]
     ELSE [hwnd |-> 0, returned |-> FALSE]

\* capture.py:213-287: a call of find_window.
FindWindow ==
  /\ LET r == find_window(desktop, SearchedTitle)
     IN /\ found_hwnd' = r.hwnd
        /\ find_returned' = << r.returned >>
        /\ hwnd' = (r.hwnd # 0)
  /\ UNCHANGED << desktop, window_title, last_successful_method,
                  capture_stats, remembered, works, attempted, img,
                  method_stats, loop,
                  matchvars, detectvars, scanvars, cachevars, learnvars,
                  queuevars, extras >>

\* A WindowCapture after construction, on any desktop.
InitFind ==
  /\ InitWith(1)
  /\ NewWindowCapture(SOURCE_WINDOWS[1].window_title)
  /\ NoMatchCall
  /\ NoDetectCall
  /\ EmptyCache
  /\ NoLearning
  /\ EmptyQueue
  /\ NoExtras
  /\ \E windows \in Desktops : FindCall(windows)
  /\ NoScanCall

NextFind == FindWindow

SpecFind == InitFind /\ [][NextFind]_vars

\* ------------------------------------- the statistics reset and the loop
\* The counters of a source's state the for loop's body increments at lines
\* 345 and 410, each in a read and a write the dashboard's thread may run
\* between; the other statements of the body are those of Iteration.
\* main.py:345: state["total_captures"] is read.
LoadTotalCaptures ==
  /\ capture_pc = "for"
  /\ windows_state[1].total_captures < MaxCaptures
  /\ windows_state[1].successful_captures < MaxCaptures
  /\ windows_state[1].error_count < MaxCaptures
  /\ counter_read' = windows_state[1].total_captures
  /\ capture_pc' = "store_total"
  /\ UNCHANGED << published, windows_state >>

\* main.py:345: state["total_captures"] is written.
StoreTotalCaptures ==
  /\ capture_pc = "store_total"
  /\ windows_state' = [windows_state EXCEPT ![1].total_captures = counter_read + 1]
  /\ capture_pc' = "capture"
  /\ UNCHANGED << published, counter_read >>

\* main.py:349-383: capture_window returns; None sends the loop to the next
\* source, a frame to line 410.
CaptureReturns ==
  /\ capture_pc = "capture"
  /\ \E shot \in Screenshots :
       IF shot = "None"
       THEN /\ windows_state' =
                 [windows_state EXCEPT
                    ![1] = CaptureFailed(@, "obs_modern_printwindow")]
            /\ capture_pc' = "publish"
       ELSE /\ capture_pc' = "load_successful"
            /\ UNCHANGED windows_state
  /\ UNCHANGED << published, counter_read >>

\* main.py:410: state["successful_captures"] is read.
LoadSuccessfulCaptures ==
  /\ capture_pc = "load_successful"
  /\ counter_read' = windows_state[1].successful_captures
  /\ capture_pc' = "store_successful"
  /\ UNCHANGED << published, windows_state >>

\* main.py:410: state["successful_captures"] is written.
StoreSuccessfulCaptures ==
  /\ capture_pc = "store_successful"
  /\ windows_state' = [windows_state EXCEPT ![1].successful_captures = counter_read + 1]
  /\ capture_pc' = "publish"
  /\ UNCHANGED << published, counter_read >>

\* main.py:488, webapp.py:898-901: the dashboard is given the loop's dict.
update_data ==
  /\ capture_pc = "publish"
  /\ published' = TRUE
  /\ capture_pc' = "for"
  /\ UNCHANGED << counter_read, windows_state >>

\* The steps of the main thread.
MainThread ==
  /\ \/ LoadTotalCaptures
     \/ StoreTotalCaptures
     \/ CaptureReturns
     \/ LoadSuccessfulCaptures
     \/ StoreSuccessfulCaptures
     \/ update_data
  /\ UNCHANGED << current_time, pc, idx, web_pc, locals, pause_flags, capvars,
                  matchvars, detectvars, scanvars, cachevars, learnvars,
                  queuevars, findvars, pausevars, latevars >>

\* webapp.py:340-365: the dashboard's thread resets the statistics of every
\* source of its windows_state, one dict.update per source.
api_reset_stats ==
  /\ windows_state' =
       IF published
       THEN [s \in DOMAIN windows_state |->
               [windows_state[s] EXCEPT !.total_captures = 0,
                                        !.successful_captures = 0,
                                        !.total_detections = 0,
                                        !.notifications_sent = 0,
                                        !.error_count = 0,
                                        !.consecutive_failures = 0]]
       ELSE windows_state
  /\ UNCHANGED << current_time, pc, idx, web_pc, locals, pause_flags, capvars,
                  matchvars, detectvars, scanvars, cachevars, learnvars,
                  queuevars, findvars, racevars, pausevars, latevars >>

NextReset == MainThread \/ api_reset_stats

SpecReset == Init /\ [][NextReset]_vars

\* ------------------------------------------- the pause flags, statement by
\* statement.  The dashboard's handler takes no lock before the callback;
\* pause_system and resume_system hold PAUSE_LOCK from their first assignment
\* to their second, which is when pause_pc is "web".
\* webapp.py:325: self.system_paused is read.
ToggleReadsFlag ==
  /\ web_pc = "idle"
  /\ toggle_read' = system_paused
  /\ web_pc' = "write"
  /\ UNCHANGED << pause_flags, pause_pc, callback_arg >>

\* webapp.py:325: its negation is written.
ToggleWritesFlag ==
  /\ web_pc = "write"
  /\ system_paused' = ~toggle_read
  /\ web_pc' = "argument"
  /\ UNCHANGED << SYSTEM_PAUSED, pause_pc, toggle_read, callback_arg >>

\* webapp.py:326: the argument self.system_paused is evaluated.
ToggleReadsArgument ==
  /\ web_pc = "argument"
  /\ callback_arg' = system_paused
  /\ web_pc' = "callback"
  /\ UNCHANGED << pause_flags, pause_pc, toggle_read >>

\* main.py:82-89: webapp_pause_callback(paused) once it has PAUSE_LOCK.
CallbackStores ==
  /\ web_pc = "callback"
  /\ pause_pc # "web"
  /\ SYSTEM_PAUSED' = callback_arg
  /\ web_pc' = "idle"
  /\ UNCHANGED << system_paused, pause_pc, toggle_read, callback_arg >>

\* main.py:70-79: toggle_pause chooses resume_system or pause_system.
toggle_pause ==
  /\ pause_pc = "idle"
  /\ pause_pc' = IF is_system_paused THEN "resume" ELSE "pause"
  /\ UNCHANGED << pause_flags, web_pc, toggle_read, callback_arg >>

\* main.py:49-50, 58-59: pause_system (paused) or resume_system (not paused),
\* called directly or by toggle_pause, takes PAUSE_LOCK and sets
\* SYSTEM_PAUSED.
SetsLocalFlag(paused) ==
  /\ pause_pc \in {"idle", IF paused THEN "pause" ELSE "resume"}
  /\ SYSTEM_PAUSED' = paused
  /\ pause_pc' = "web"
  /\ UNCHANGED << system_paused, web_pc, toggle_read, callback_arg >>

\* main.py:51, 60: set_webapp_pause_state with the flag just set, then the
\* lock is released.
SetsWebFlag ==
  /\ pause_pc = "web"
  /\ system_paused' = SYSTEM_PAUSED
  /\ pause_pc' = "idle"
  /\ UNCHANGED << SYSTEM_PAUSED, web_pc, toggle_read, callback_arg >>

\* The variables no statement of the pause functions writes.
NotPauseState ==
  << current_time, pc, idx, windows_state, locals, capvars, matchvars,
     detectvars, scanvars, cachevars, learnvars, queuevars, findvars,
     racevars, latevars >>

\* webapp.py:321-338: the steps of the dashboard's request thread.
WebThread ==
  /\ \/ ToggleReadsFlag
     \/ ToggleWritesFlag
     \/ ToggleReadsArgument
     \/ CallbackStores
  /\ UNCHANGED NotPauseState

\* main.py:46-79: the steps of a thread that pauses, resumes or toggles.
PauseThread ==
  /\ \/ toggle_pause
     \/ \E paused \in BOOLEAN : SetsLocalFlag(paused)
     \/ SetsWebFlag
  /\ UNCHANGED NotPauseState

NextPause == WebThread \/ PauseThread

SpecPause == Init /\ [][NextPause]_vars

\* ------------------------------------------------ initialize_capture_system
\* What the loop meets for a configured window: the entry has no
\* window_title; find_window fails; it succeeds and get_window_info gives the
\* window's information; it succeeds and get_window_info gives the dict with
\* an 'error' key (capture.py:411-420).
WindowOutcomes == {"untitled", "missing", "found", "no info"}

Configurations == UNION {[1..n -> WindowOutcomes] : n \in 1..MaxConfigured}

\* capture.py:944-979: the loop's body for the window at init_pos.  The else
\* branch of line 975 reads the local window_info, which only the branch of
\* a found window assigns.
InitializeWindow ==
  /\ init_returned = "running"
  /\ init_pos <= Len(init_windows)
  /\ LET outcome == init_windows[init_pos]
     IN IF outcome = "untitled"
        THEN /\ init_pos' = init_pos + 1
             /\ UNCHANGED << init_returned, success_count, window_info >>
        ELSE IF outcome = "missing"
        THEN IF window_info = "unbound"
             THEN /\ init_returned' = "raised"
                  /\ UNCHANGED << init_pos, success_count, window_info >>
             ELSE /\ init_pos' = init_pos + 1
                  /\ UNCHANGED << init_returned, success_count, window_info >>
        ELSE /\ window_info' = outcome
             /\ success_count' = IF outcome = "found" THEN success_count + 1
                                  ELSE success_count
             /\ init_pos' = init_pos + 1
             /\ UNCHANGED init_returned
  /\ UNCHANGED << init_windows, DIRECT_CAPTURE_INITIALIZED >>

\* capture.py:981-994: after the loop.
InitializeReturns ==
  /\ init_returned = "running"
  /\ init_pos > Len(init_windows)
  /\ DIRECT_CAPTURE_INITIALIZED' = (success_count > 0)
  /\ init_returned' = IF success_count > 0 THEN "True" ELSE "False"
  /\ UNCHANGED << init_windows, init_pos, success_count, window_info >>

initialize_capture_system ==
  /\ InitializeWindow \/ InitializeReturns
  /\ UNCHANGED << loop, capvars, matchvars, detectvars, scanvars, cachevars,
                  learnvars, queuevars, findvars, racevars, pausevars,
                  method_hint, configvars >>

InitStartup ==
  /\ InitWith(1)
  /\ NewWindowCapture(SOURCE_WINDOWS[1].window_title)
  /\ NoMatchCall
  /\ NoDetectCall
  /\ NoScanCall
  /\ EmptyCache /\ NoLearning /\ EmptyQueue /\ NoFindCall
  /\ NoIteration /\ NoPauseCall /\ NoHint /\ Configured(<< >>)
  /\ \E outcomes \in Configurations : Startup(outcomes)

NextStartup == initialize_capture_system

SpecStartup == InitStartup /\ [][NextStartup]_vars

\* ----------------------------------------------- last-war-alerts-v3 sources
\* The names of the sources and the values of a source's "enabled" entry:
\* add_source always writes the entry, a configuration file need not hold it.
SourceTitles == {"a", "b"}

EnabledEntries == {"absent", "True", "False"}

SourceEntries == [name : SourceTitles, enabled : EnabledEntries]

\* The lists of sources a configuration file holds, names distinct.
SourceLists ==
  {l \in UNION {[1..n -> SourceEntries] : n \in 0..MaxSources} :
     \A i, j \in DOMAIN l : l[i].name = l[j].name => i = j}

\* v3 config_manager.py:61-81: save_config writes self.config to the file
\* and gives True, or an exception is caught and it gives False; the file is
\* then untouched (mkdir or open failed) or cut short (the dump failed).
FilesAfterSave(sources, saves) ==
  IF saves THEN {[written |-> "whole", sources |-> sources]}
  ELSE {config_file, [written |-> "partial", sources |-> << >>]}

\* list.pop(i) and list.insert(i, x).
Pop(l, i) == [j \in 1..(Len(l) - 1) |-> IF j < i THEN l[j] ELSE l[j + 1]]

Insert(l, i, x) ==
  [j \in 1..(Len(l) + 1) |-> IF j < i THEN l[j] ELSE IF j = i THEN x ELSE l[j - 1]]

\* The first source of the list with the name, 0 for none.
FirstNamed(sources, name) ==
  IF \E i \in DOMAIN sources : sources[i].name = name
  THEN CHOOSE i \in DOMAIN sources :
         /\ sources[i].name = name
         /\ \A j \in 1..(i - 1) : sources[j].name # name
  ELSE 0

\* not x, as a value of the "enabled" entry.
Not(enabled) == IF enabled = "False" THEN "True" ELSE "False"

Call(op, name, saved, success, message) ==
  [op |-> op, name |-> name, saved |-> saved, success |-> success,
   message |-> message]

NotConfigState ==
  << loop, capvars, matchvars, detectvars, scanvars, cachevars, learnvars,
     queuevars, findvars, racevars, pausevars, method_hint, startvars >>

\* v3 config_manager.py:83-109.
add_source ==
  \E name \in SourceTitles, enabled \in {"True", "False"}, saves \in BOOLEAN :
    /\ FirstNamed(config_sources, name) # 0 \/ Len(config_sources) < MaxSources
    /\ IF FirstNamed(config_sources, name) # 0
       THEN /\ last_call' = Call("add", name, "not tried", FALSE, "Source déjà existante")
            /\ UNCHANGED << config_sources, config_file >>
       ELSE LET appended == Append(config_sources,
                                   [name |-> name, enabled |-> enabled])
            IN /\ config_file' \in FilesAfterSave(appended, saves)
               /\ config_sources' = IF saves THEN appended
                                     ELSE SubSeq(appended, 1, Len(appended) - 1)
               /\ last_call' =
                    IF saves
                    THEN Call("add", name, "saved", TRUE, "Source ajoutée avec succès")
                    ELSE Call("add", name, "failed", FALSE, "Erreur lors de la sauvegarde")
    /\ UNCHANGED << capturers, captured, cycle_count >>
    /\ UNCHANGED NotConfigState

\* v3 config_manager.py:111-130.
remove_source ==
  \E name \in SourceTitles, saves \in BOOLEAN :
    /\ LET i == FirstNamed(config_sources, name)
       IN IF i = 0
          THEN /\ last_call' = Call("remove", name, "not tried", FALSE, "Source non trouvée")
               /\ UNCHANGED << config_sources, config_file >>
          ELSE LET removed_source == config_sources[i]
                   popped == Pop(config_sources, i)
               IN /\ config_file' \in FilesAfterSave(popped, saves)
                  /\ config_sources' = IF saves THEN popped
                                        ELSE Insert(popped, i, removed_source)
                  /\ last_call' =
                       IF saves
                       THEN Call("remove", name, "saved", TRUE, "Source supprimée avec succès")
                       ELSE Call("remove", name, "failed", FALSE, "Erreur lors de la sauvegarde")
    /\ UNCHANGED << capturers, captured, cycle_count >>
    /\ UNCHANGED NotConfigState

\* v3 config_manager.py:132-151: source["enabled"] = not
\* source.get("enabled", True), and on a failed save
\* source["enabled"] = not source["enabled"].
toggle_source ==
  \E name \in SourceTitles, saves \in BOOLEAN :
    /\ LET i == FirstNamed(config_sources, name)
       IN IF i = 0
          THEN /\ last_call' = Call("toggle", name, "not tried", FALSE, "Source non trouvée")
               /\ UNCHANGED << config_sources, config_file >>
          ELSE LET flipped == Not(IF Enabled(config_sources[i]) THEN "True" ELSE "False")
                   toggled == [config_sources EXCEPT ![i].enabled = flipped]
               IN /\ config_file' \in FilesAfterSave(toggled, saves)
                  /\ config_sources' =
                       IF saves THEN toggled
                       ELSE [toggled EXCEPT ![i].enabled = Not(flipped)]
                  /\ last_call' =
                       IF saves
                       THEN Call("toggle", name, "saved", TRUE,
                                 IF flipped = "True" THEN "Source activée avec succès"
                                 ELSE "Source désactivée avec succès")
                       ELSE Call("toggle", name, "failed", FALSE, "Erreur lors de la sauvegarde")
    /\ UNCHANGED << capturers, captured, cycle_count >>
    /\ UNCHANGED NotConfigState

\* v3 main.py:142-178: one cycle of run_detection_loop calls capture_source
\* for every name of capture_manager.capturers.
DetectionCycle ==
  /\ cycle_count < MaxCycles
  /\ cycle_count' = cycle_count + 1
  /\ captured' = capturers
  /\ UNCHANGED << config_sources, config_file, capturers, last_call >>
  /\ UNCHANGED NotConfigState

InitConfig ==
  /\ InitWith(1)
  /\ NewWindowCapture(SOURCE_WINDOWS[1].window_title)
  /\ NoMatchCall
  /\ NoDetectCall
  /\ NoScanCall
  /\ EmptyCache /\ NoLearning /\ EmptyQueue /\ NoFindCall
  /\ NoIteration /\ NoPauseCall /\ NoHint /\ Startup(<< >>)
  /\ \E sources \in SourceLists : Configured(sources)

NextConfig == add_source \/ remove_source \/ toggle_source \/ DetectionCycle

SpecConfig == InitConfig /\ [][NextConfig]_vars

\* ------------------------------------------------------------------ claims
\* The step is the for loop's iteration for source s.
Processed(s) == pc = "for" /\ idx = s /\ idx' = s + 1

\* The step is an iteration for s in which an alert was detected.
DetectedIn(s) ==
  /\ Processed(s)
  /\ screenshot' # "None"
  /\ alert_detected'

\* The step is an iteration for s that put an alert notification on the queue.
AlertEnqueuedIn(s) ==
  /\ Processed(s)
  /\ \E n \in enqueued' : n.kind = "alert" /\ n.source = s

\* The step is an iteration for s that put a black-screen notification on
\* the queue.
BlackEnqueuedIn(s) ==
  /\ Processed(s)
  /\ \E n \in enqueued' : n.kind = "black" /\ n.source = s

\* C1: an alert detected on a source whose last processed frame showed no
\* alert (last_alert_state false, the first cycle included) is notified in
\* that same cycle, whatever consecutive_detections and the time since the
\* last notification are.
C1_FirstDetectionNotifies ==
  [][\A s \in Watched :
       (DetectedIn(s) /\ ~windows_state[s].last_alert_state)
       => /\ [kind |-> "alert", source |-> s, alert |-> current_alert'] \in enqueued'
          /\ ALERTS[current_alert'].name = windows_state'[s].last_alert_name
          /\ windows_state'[s].notifications_sent
               = windows_state[s].notifications_sent + 1
          /\ windows_state'[s].last_notification_time = current_time]_vars

\* C1 witness: a second notification of a source, on a first detection
\* (one consecutive detection), within the cooldown of the first one.
C1_Witness ==
  \E s \in Watched :
    /\ source_name = s /\ pc = "for" /\ screenshot # "None" /\ alert_detected
    /\ \E n \in enqueued : n.kind = "alert" /\ n.source = s
    /\ windows_state[s].consecutive_detections = 1
    /\ windows_state[s].notifications_sent = 2
    /\ current_time <= StartTime + 1 + windows_state[s].notification_cooldown

\* C2: under continuous detection (the source's last processed frame showed
\* an alert too) an alert notification is put on the queue only when more
\* than notification_cooldown has passed since the source's last one.
C2_NoRefireWithinCooldown ==
  [][\A s \in Watched :
       (AlertEnqueuedIn(s) /\ windows_state[s].last_alert_state)
       => current_time - windows_state[s].last_notification_time
            > windows_state[s].notification_cooldown]_vars

\* C2 witness: a frame with the alert still detected, processed within the
\* cooldown of the last notification, that put no alert notification on the
\* queue.
C2_Witness ==
  \E s \in Watched :
    /\ source_name = s /\ pc = "for" /\ screenshot # "None" /\ alert_detected
    /\ windows_state[s].consecutive_detections >= 3
    /\ windows_state[s].last_notification_time < current_time
    /\ current_time - windows_state[s].last_notification_time
         <= windows_state[s].notification_cooldown
    /\ ~ \E n \in enqueued : n.kind = "alert"

\* C3 (as claimed): a detection that reappears after a cycle without
\* detection is notified only once the alert has been detected in 3
\* consecutive cycles.
C3_ReappearanceWaits ==
  [][\A s \in Watched :
       (AlertEnqueuedIn(s)
          /\ ~windows_state[s].last_alert_state
          /\ windows_state[s].notifications_sent >= 1)
       => windows_state'[s].consecutive_detections >= 3]_vars

\* C4 (as claimed): two alert notifications of the same alert on the same
\* source are at least notification_cooldown apart.
C4_CooldownBetweenNotifications ==
  [][\A s \in Watched :
       (AlertEnqueuedIn(s) /\ notified_alert[s] = current_alert')
       => current_time - windows_state[s].last_notification_time
            >= windows_state[s].notification_cooldown]_vars

\* C5 (as claimed): an alert B newly detected on a source (the last
\* processed frame did not show B) is notified in that cycle even when
\* another alert A was detected on the source's last processed frame.
C5_PerAlertState ==
  [][\A s \in Watched :
       (DetectedIn(s)
          /\ windows_state[s].last_alert_state
          /\ windows_state[s].last_alert_name # ALERTS[current_alert'].name)
       => [kind |-> "alert", source |-> s, alert |-> current_alert'] \in enqueued']_vars

\* The cycles the loop still has to start before s has 3 consecutive
\* detections: the running cycle counts when s is still to be processed.
CyclesNeeded(s) ==
  LET c == windows_state[s].consecutive_detections
  IN IF pc = "for" /\ idx <= s
     THEN (IF c >= 2 THEN 0 ELSE 2 - c)
     ELSE (IF c >= 2 THEN 1 ELSE 3 - c)

\* The cooldown of s has passed since its last notification, the alert is
\* still on screen, and the model's clock leaves room for the cycles needed.
RefireDue(s) ==
  /\ windows_state[s].last_alert_state
  /\ windows_state[s].last_notification_time > 0
  /\ current_time - windows_state[s].last_notification_time
       > windows_state[s].notification_cooldown
  /\ current_time + CyclesNeeded(s) <= LiveMaxTime

\* C6: while the alert stays detected in every cycle, once the cooldown
\* has passed since the last notification another notification is
\* eventually put on the queue.
C6_RefiresAfterCooldown ==
  \A s \in Sources :
    (s \in Watched /\ RefireDue(s))
      ~> (/\ s \in Watched
          /\ source_name = s /\ alert_detected
          /\ \E n \in enqueued : n.kind = "alert" /\ n.source = s
          /\ windows_state[s].last_notification_time = current_time
          /\ windows_state[s].notifications_sent >= 2
          /\ windows_state[s].consecutive_detections >= 3)

\* C6 witness: a second notification under continuous detection, with at
\* least 3 consecutive detections.
C6_Witness ==
  \E s \in Watched :
    /\ source_name = s /\ pc = "for" /\ alert_detected
    /\ \E n \in enqueued : n.kind = "alert" /\ n.source = s
    /\ windows_state[s].notifications_sent = 2
    /\ windows_state[s].consecutive_detections >= 3
    /\ windows_state[s].total_detections = windows_state[s].consecutive_detections

\* C7: a cycle that finds the system paused at its pause check (either
\* flag set; a cycle already past the check finishes its sources) does not
\* enter the for loop: it detects nothing and notifies nothing, and leaves
\* every source's total_detections, notifications_sent,
\* consecutive_detections, last_alert_state and last_notification_time as
\* they were.
C7_PausedCycleFrame ==
  [][(pc = "top" /\ (SYSTEM_PAUSED \/ system_paused) /\ current_time' # current_time)
       => /\ pc' = "top"
          /\ enqueued' = enqueued
          /\ \A s \in Watched :
               /\ windows_state'[s].total_detections = windows_state[s].total_detections
               /\ windows_state'[s].notifications_sent = windows_state[s].notifications_sent
               /\ windows_state'[s].consecutive_detections
                    = windows_state[s].consecutive_detections
               /\ windows_state'[s].last_alert_state = windows_state[s].last_alert_state
               /\ windows_state'[s].last_notification_time
                    = windows_state[s].last_notification_time]_vars

\* C7 witness: a paused cycle has run with only the dashboard's flag set,
\* after a cycle that detected and notified.
C7_Witness ==
  /\ pc = "top"
  /\ system_paused /\ ~SYSTEM_PAUSED
  /\ \E s \in Watched :
       /\ windows_state[s].notifications_sent = 1
       /\ windows_state[s].total_captures = 1
       /\ windows_state[s].last_notification_time + 1 < current_time

\* C8 (as claimed): a cycle that finds the system paused still enters the
\* for loop and captures the sources.
C8_PausedCycleCaptures ==
  [][(pc = "top" /\ (SYSTEM_PAUSED \/ system_paused) /\ current_time' # current_time)
       => pc' = "for"]_vars

\* The step is a call of capture that located the window, made with method
\* m remembered.
CaptureWith(m) ==
  /\ capture_stats'.total_attempts = capture_stats.total_attempts + 1
  /\ attempted' # << >>
  /\ last_successful_method = m

\* The fallback order of a window: the full-content PrintWindow first for a
\* Last War window, then methods_order.
FallbackOrder(title) ==
  (IF title = "Last War-Survival Game" THEN << "obs_modern_printwindow" >> ELSE << >>)
    \o << "print_window", "win32_gdi", "mss_monitor", "pil_imagegrab" >>

\* C9 (as claimed): a capture call made with method m remembered, in which m
\* returns a frame, invokes m and nothing else, for every method m.
C9_RememberedMethodOnly ==
  [][\A m \in AllMethods :
       (CaptureWith(m) /\ m \in works')
         => (attempted' = << m >> /\ img' = "img")]_vars

\* C10: when the remembered method is invoked (step 4, which is never the
\* case of obs_modern_printwindow) and returns no frame, the
\* call goes on through the window's whole fallback order up to the first
\* method that returns a frame; that method is remembered afterwards, and
\* no method is remembered when the whole order failed.
C10_FailureRunsFallback ==
  [][\A m \in AllMethods :
       (CaptureWith(m) /\ Head(attempted') = m /\ m \notin works')
         => LET rest == Tail(attempted')
                order == FallbackOrder(window_title)
            IN /\ rest # << >>
               /\ Len(rest) <= Len(order)
               /\ rest = SubSeq(order, 1, Len(rest))
               /\ img' = "None" => /\ rest = order
                                   /\ last_successful_method' = "None"
               /\ img' # "None" => last_successful_method' = rest[Len(rest)]]_vars

\* C10 witness: the remembered method failed, the fallback order of a Last
\* War window was run past the full-content PrintWindow, and a later method
\* succeeded and is remembered.
C10_Witness ==
  /\ IsLastWar(window_title)
  /\ remembered \in AllMethods /\ remembered \notin works
  /\ Len(attempted) >= 3
  /\ attempted[1] = remembered
  /\ attempted[2] = CaptureMethod.OBS_MODERN_PRINTWINDOW
  /\ img = "img"
  /\ last_successful_method = attempted[Len(attempted)]
  /\ last_successful_method # remembered


\* C11: a capture call made with no method remembered invokes the methods
\* of the window's fallback order (the full-content PrintWindow first for a
\* Last War window, then print_window, win32_gdi, mss_monitor,
\* pil_imagegrab) one after the other, stops at the first that returns a
\* frame, and remembers exactly that method.
C11_PriorityOrder ==
  [][CaptureWith("None")
       => LET order == FallbackOrder(window_title)
              n == Len(attempted')
          IN /\ n <= Len(order)
             /\ attempted' = SubSeq(order, 1, n)
             /\ \A i \in 1..(n - 1) : order[i] \notin works'
             /\ img' = "img" => /\ order[n] \in works'
                                /\ last_successful_method' = order[n]
             /\ img' = "None" => n = Len(order) /\ order[n] \notin works']_vars

\* C11 witness: on a Last War window with nothing remembered, the
\* full-content PrintWindow and print_window failed, win32_gdi returned a
\* frame and is remembered, though mss_monitor would have worked too.
C11_Witness ==
  /\ window_title = "Last War-Survival Game"
  /\ remembered = "None"
  /\ attempted = << "obs_modern_printwindow", "print_window", "win32_gdi" >>
  /\ "mss_monitor" \in works
  /\ img = "img"
  /\ last_successful_method = "win32_gdi"


\* C12: a capture call in which every method invoked returned no frame (a
\* raise inside a method counts as no frame, capture.py:716, 757) returns
\* None as an ordinary result; the four methods of methods_order were all
\* invoked, no method is remembered afterwards, total_attempts grew by one
\* and successful_captures did not move.
C12_TotalFailure ==
  [][(/\ capture_stats'.total_attempts = capture_stats.total_attempts + 1
      /\ attempted' # << >>
      /\ img' = "None")
       => /\ \A i \in 1..4 :
               \E j \in 1..Len(attempted') :
                 attempted'[j] = FallbackOrder("BlueStacks App Player")[i]
          /\ last_successful_method' = "None"
          /\ capture_stats'.successful_captures = capture_stats.successful_captures
          /\ capture_stats'.last_error = "all methods failed"]_vars

\* C12 witness: a call made with a method remembered from an earlier
\* success found every method failing: nothing is remembered any more and
\* the one success of the window is still counted once.
C12_Witness ==
  /\ remembered \in AllMethods
  /\ works = {}
  /\ attempted # << >>
  /\ img = "None"
  /\ last_successful_method = "None"
  /\ capture_stats.total_attempts = 2
  /\ capture_stats.successful_captures = 1


\* C13 (as claimed): a capture call invokes no method twice.
C13_NoRetryInCall ==
  [][capture_stats'.total_attempts = capture_stats.total_attempts + 1
       => \A i, j \in 1..Len(attempted') :
            attempted'[i] = attempted'[j] => i = j]_vars


\* C14 (as claimed): after an iteration that captured an ordinary
\* (non-black) frame of a source, the source's consecutive_failures is 0.
C14_FailuresResetOnSuccess ==
  [][\A s \in Watched :
       (Processed(s) /\ screenshot' = "frame")
         => windows_state'[s].consecutive_failures = 0]_vars


\* C15: in a cycle that entered the for loop every configured source is
\* processed exactly once, whatever happened to the others: total_captures
\* of a source moves only in the iteration at its index, by one; every
\* iteration, failed or not, hands over to the next index; and the cycle
\* ends only past the last configured source.
C15_EverySourceOnce ==
  [][/\ \A s \in Watched :
          (windows_state'[s].total_captures # windows_state[s].total_captures)
            => (/\ pc = "for" /\ idx = s /\ idx' = s + 1
                /\ windows_state'[s].total_captures
                     = windows_state[s].total_captures + 1)
      /\ ((pc = "for" /\ idx' # idx)
            => (/\ idx' = idx + 1
                /\ windows_state'[idx].total_captures
                     = windows_state[idx].total_captures + 1))
      /\ ((pc = "for" /\ pc' = "top") => idx = Len(SOURCE_WINDOWS) + 1)
      /\ ((pc = "top" /\ pc' = "for") => idx' = 1)]_vars

\* C15 witness: in one cycle the capture of the first source failed and the
\* match of the second source raised for Dig! and detected EGGGGGG!; both
\* sources were processed.
C15_Witness ==
  /\ pc = "for" /\ idx = 3
  /\ windows_state[1].total_captures = 1
  /\ windows_state[1].consecutive_failures = 1
  /\ windows_state[2].total_captures = 1
  /\ windows_state[2].last_alert_name = "EGGGGGG!"
  /\ windows_state[2].last_confidence = 85
  /\ windows_state[2].notifications_sent = 1


\* The variants of the call that load and whose match clears the threshold.
Clearing ==
  {i \in 1..Len(template_paths) :
     template_paths[i].loads /\ template_paths[i].confidence >= match_threshold}

\* C17: with strategy "best", check_multiple_templates returns the variant
\* with the highest confidence among those that clear the threshold, the
\* earliest one on a tie, and returns None exactly when none clears it.
C17_BestReturnsHighest ==
  (match_pc = "done" /\ match_strategy = "best")
    => /\ match_result.found <=> Clearing # {}
       /\ match_result.found
            => /\ match_result.template \in Clearing
               /\ match_result.confidence
                    = template_paths[match_result.template].confidence
               /\ \A j \in Clearing :
                    /\ template_paths[j].confidence <= match_result.confidence
                    /\ j < match_result.template
                         => template_paths[j].confidence < match_result.confidence

\* C17 witness: three variants clear the threshold, the second and third
\* tie above the first; the second is returned.
C17_Witness ==
  /\ match_pc = "done" /\ match_strategy = "best"
  /\ Len(template_paths) = 3
  /\ Clearing = {1, 2, 3}
  /\ template_paths[1].confidence < template_paths[2].confidence
  /\ template_paths[2].confidence = template_paths[3].confidence
  /\ match_result.found /\ match_result.template = 2

\* C18: with strategy "first", check_multiple_templates returns the first
\* variant in list order that clears the threshold, and calls
\* load_template_cached for no variant after it.
C18_FirstStopsAtMatch ==
  (match_pc = "done" /\ match_strategy = "first")
    => /\ match_result.found <=> Clearing # {}
       /\ match_result.found
            => /\ match_result.template \in Clearing
               /\ \A j \in Clearing : match_result.template <= j
               /\ Len(loaded_templates) = match_result.template
               /\ \A k \in 1..Len(loaded_templates) : loaded_templates[k] = k

\* C18 witness: the first variant misses the threshold, the second clears
\* it and is returned; the third, with a higher confidence, was not loaded.
C18_Witness ==
  /\ match_pc = "done" /\ match_strategy = "first"
  /\ Len(template_paths) = 3
  /\ Clearing = {2, 3}
  /\ template_paths[1].loads
  /\ template_paths[3].confidence > template_paths[2].confidence
  /\ match_result.found /\ match_result.template = 2
  /\ loaded_templates = << 1, 2 >>


\* C16: the main loop counts an alert as detected exactly when the
\* confidence of the match is at least the effective threshold, the
\* configured threshold as adjusted by get_adjusted_threshold, whether the
\* adjustment raised or lowered it.
C16_EffectiveThreshold ==
  detect_pc = "done"
    => (alert_counted
          <=> detect_result.confidence >= detect_result.adjusted_threshold)


\* A score above 0.95 has been found by the scan.
NearPerfectFound == best_match.found /\ best_match.confidence > 950

\* C19: once a (scale, ratio) pair of the scan of a template has given a
\* score above 0.95, no further pair is evaluated for that template.
C19_EarlyStop ==
  [][(scan_pc = "scan" /\ NearPerfectFound) => evaluated' = evaluated]_vars

\* The unscaled template fits within 80% of the frame's width and height.
FitsUnscaled ==
  /\ scan_template.w * 10 <= scan_frame.w * 8
  /\ scan_template.h * 10 <= scan_frame.h * 8

\* C20: for a template of at least 20 px a side that fits unscaled within
\* 80% of the frame, the scales the scan goes through include 1.0.
C20_UnitScaleScanned ==
  (scan_pc \in {"scan", "done"}
     /\ scan_template.w >= 20 /\ scan_template.h >= 20
     /\ FitsUnscaled)
    => \E k \in DOMAIN scan_scales : scan_scales[k] = 1000


\* The cache holds path.
Cached(path) == \E k \in DOMAIN template_cache : template_cache[k].path = path

\* The buffer the cache holds for path.
BufferOf(path) ==
  template_cache[CHOOSE k \in DOMAIN template_cache :
                   template_cache[k].path = path].buffer

\* The step is a call of load_template_cached for path: every step that is
\* not the beginning of a cycle.
Loads(path) == load_path' = path /\ total_cycles' = total_cycles

\* C21: a load of a path returns the buffer it decoded into the cache; a
\* later load of the same path, while the cache still holds it, reads no
\* file, returns that same buffer and leaves the cache as it is; the cache
\* never holds two entries for one path.
C21_LoadOnce ==
  [][LET path == load_path'
     IN Loads(path)
         => /\ Cached(path)
                 => /\ ~load_decoded'
                    /\ decodes' = decodes
                    /\ load_returned' = BufferOf(path)
                    /\ template_cache' = template_cache
            /\ load_returned' # 0
                 => \E k \in DOMAIN template_cache' :
                      template_cache'[k] = [path |-> path, buffer |-> load_returned']
            /\ \A j, k \in DOMAIN template_cache' :
                 template_cache'[j].path = template_cache'[k].path => j = k]_vars

\* C21 witness: the last load read no file and returned the buffer an
\* earlier load had decoded, other paths having been decoded since.
C21_Witness ==
  /\ load_path # 0
  /\ ~load_decoded
  /\ load_returned # 0
  /\ load_returned < decodes
  /\ Cached(load_path) /\ BufferOf(load_path) = load_returned

\* C22: the template cache never holds more entries than its ceiling.
C22_CacheBounded == Len(template_cache) <= CacheCeiling


\* The suggested threshold of the alert's adjustment.
Suggested == threshold_adjustment.suggested_threshold

\* The thresholds alerts are configured with, in hundredths.
DefaultThresholds == {ALERTS[a].threshold : a \in AlertIdx}

\* C23: the patterns stored for an alert are never more than 20, and they
\* are the last patterns recorded for it, in the order they were recorded.
C23_PatternsBounded ==
  /\ Len(false_positive_patterns) <= PatternsKept
  /\ Len(false_positive_patterns) =
       IF signatures <= PatternsKept THEN signatures ELSE PatternsKept
  /\ \A k \in DOMAIN false_positive_patterns :
       false_positive_patterns[k] =
         signatures - Len(false_positive_patterns) + k

\* C23 witness: more than 20 patterns have been recorded and the first of
\* them is no longer stored.
C23_Witness ==
  /\ signatures > PatternsKept
  /\ Len(false_positive_patterns) = PatternsKept
  /\ false_positive_patterns[1] = signatures - PatternsKept + 1
  /\ alert_stats.true_positives > 0

\* C24: while fewer than 10 validations have been recorded for the alert,
\* get_adjusted_threshold returns the default threshold it is given.
C24_DefaultBeforeTenSamples ==
  Validations < 10
    => \A d \in DefaultThresholds :
         get_adjusted_threshold(threshold_adjustment, d) = d

\* C24 witness: nine validations are recorded and the alert has an
\* adjustment whose suggestion differs from every default threshold.
C24_Witness ==
  /\ Validations = 9
  /\ threshold_adjustment # NoAdjustment
  /\ threshold_adjustment.samples = 9
  /\ threshold_adjustment.confidence.num > 0
  /\ \A d \in DefaultThresholds :
       /\ Suggested.num # d * Suggested.den
       /\ get_adjusted_threshold(threshold_adjustment, d) = d

\* C25: with at least 10 validations, accepted and rejected, every rejected
\* confidence below every accepted one, the alert has a suggested threshold
\* and it lies strictly between the highest rejected and the lowest
\* accepted confidence.
C25_SuggestionSeparates ==
  (/\ Validations >= 10
   /\ alert_stats.true_positives > 0
   /\ alert_stats.false_positives > 0
   /\ alert_stats.max_invalid_confidence < alert_stats.min_valid_confidence)
    => /\ threshold_adjustment # NoAdjustment
       /\ RatLess(Rational(alert_stats.max_invalid_confidence, 1), Suggested)
       /\ RatLess(Suggested, Rational(alert_stats.min_valid_confidence, 1))

\* C26: an adjustment that is applied gives a threshold between the default
\* and the suggested one, at most 30% of their distance from the default.
C26_BlendCapped ==
  (threshold_adjustment # NoAdjustment /\ threshold_adjustment.samples >= 10)
    => \A d \in DefaultThresholds :
         LET adjusted == Blend(threshold_adjustment, d)
             default == Rational(d, 1)
             \* 10 * (adjusted - default) and 3 * (suggested - default)
             moved == Rational(10 * (adjusted.num - d * adjusted.den), adjusted.den)
             cap == Rational(3 * (Suggested.num - d * Suggested.den), Suggested.den)
         IN IF RatLeq(default, Suggested)
            THEN /\ RatLeq(default, adjusted) /\ RatLeq(adjusted, Suggested)
                 /\ RatLeq(moved, cap)
            ELSE /\ RatLeq(Suggested, adjusted) /\ RatLeq(adjusted, default)
                 /\ RatLeq(cap, moved)

\* C26 witness: an applied adjustment moves a default threshold towards a
\* suggestion that differs from it.
C26_Witness ==
  /\ threshold_adjustment # NoAdjustment
  /\ threshold_adjustment.samples >= 10
  /\ threshold_adjustment.confidence.num > 0
  /\ \E d \in DefaultThresholds :
       LET adjusted == Blend(threshold_adjustment, d)
       IN /\ RatLess(Rational(d, 1), Suggested)
          /\ RatLess(Rational(d, 1), adjusted)
          /\ RatLess(adjusted, Suggested)

\* C27: the adjustment an alert has is that of its current statistics: its
\* samples are the validations recorded and its suggestion the one
\* calculate_threshold_adjustment derives from the statistics.
C27_AdjustmentCurrent ==
  threshold_adjustment # NoAdjustment
    => /\ threshold_adjustment.samples = Validations
       /\ threshold_adjustment =
            calculate_threshold_adjustment(alert_stats, NoAdjustment)

\* C28: the notification queue never holds more than its configured
\* capacity of ten pending notifications.
C28_QueueBounded == Len(notification_queue) <= QueueCapacity

\* C29: two black-screen notifications of a source are more than the
\* black-screen delay apart.  last_black_screen_notification changes only in
\* an iteration that enqueues a black-screen notification, which sets it to
\* the time of that iteration; and such an iteration happens only when more
\* than the delay has passed since the time it holds.
C29_BlackScreenRateLimited ==
  [][\A s \in Watched :
       LET last == windows_state[s].last_black_screen_notification
       IN /\ BlackEnqueuedIn(s)
               => /\ current_time - last > BlackScreenDelay
                  /\ windows_state'[s].last_black_screen_notification =
                       current_time
          /\ windows_state'[s].last_black_screen_notification # last
               => BlackEnqueuedIn(s)]_vars

\* Every frame of the source was black, the first was notified, and more
\* than the delay later the frame of this iteration is notified again.
C29_Witness ==
  /\ [kind |-> "black", source |-> 1, alert |-> 0] \in enqueued
  /\ windows_state[1].total_captures >= 3
  /\ windows_state[1].consecutive_failures = windows_state[1].total_captures
  /\ windows_state[1].error_count = 0
  /\ windows_state[1].last_black_screen_notification = current_time
  /\ current_time > StartTime + 1 + BlackScreenDelay

\* The visible windows of the desktop whose title contains the searched one
\* whatever the case, and those of them whose title is the searched one.
Matching ==
  {i \in DOMAIN desktop :
     /\ desktop[i].visible
     /\ Contains(lower(SearchedTitle), lower(desktop[i].text))}

ExactlyMatching ==
  {i \in Matching : lower(desktop[i].text) = lower(SearchedTitle)}

ClientArea(i) == desktop[i].width * desktop[i].height

\* C30: find_window reports not-found exactly when no visible window
\* matches; otherwise it selects a window whose title is the searched one if
\* there is one, and else a partial match of the largest client area, a
\* minimized one only if every partial match of that area is minimized.
C30_FindWindowSelects ==
  find_returned # << >>
    => /\ (find_returned = << FALSE >> /\ found_hwnd = 0) <=> Matching = {}
       /\ Matching # {} => found_hwnd \in Matching
       /\ ExactlyMatching # {} => found_hwnd \in ExactlyMatching
       /\ (Matching # {} /\ ExactlyMatching = {} /\ found_hwnd \in Matching)
            => \A j \in Matching :
                 /\ ClientArea(j) <= ClientArea(found_hwnd)
                 /\ (ClientArea(j) = ClientArea(found_hwnd)
                       /\ desktop[found_hwnd].minimized)
                     => desktop[j].minimized

\* The alert notifications in a set of notifications.
AlertNotifications(items) == {n \in items : n.kind = "alert"}

\* C38: an iteration that captured a frame called check_for_alert for
\* enabled alerts only, in configuration order without a gap, and for none
\* after the first call whose confidence reached the alert's threshold; it
\* counted at most one detection and enqueued at most one alert notification.
C38_OneAlertPerFrame ==
  [][\A s \in Watched :
       (Processed(s) /\ screenshot' # "None")
         => LET n == Len(checked')
                at(k) == checked'[k].alert
                reached(k) == checked'[k].confidence >= ALERTS[at(k)].threshold
            IN /\ \A k \in 1..n : ALERTS[at(k)].enabled
               /\ \A k \in 1..n :
                    {i \in EnabledAlerts : i < at(k)} = {at(j) : j \in 1..(k - 1)}
               /\ \A k \in 1..(n - 1) : at(k) < at(k + 1) /\ ~reached(k)
               /\ alert_detected' <=> (n > 0 /\ reached(n))
               /\ alert_detected' => current_alert' = at(n)
               /\ ~alert_detected' => {at(k) : k \in 1..n} = EnabledAlerts
               /\ windows_state'[s].total_detections
                    = windows_state[s].total_detections
                        + (IF alert_detected' THEN 1 ELSE 0)
               /\ Cardinality(AlertNotifications(enqueued')) <= 1
               /\ \A item \in AlertNotifications(enqueued') :
                    alert_detected' /\ item.alert = current_alert']_vars

\* The first alert was not detected, the second was, and its notification is
\* on the queue; the third, disabled, was not checked.
C38_Witness ==
  /\ alert_detected
  /\ current_alert = 2
  /\ checked = << [alert |-> 1, confidence |-> 0],
                  [alert |-> 2, confidence |-> 85] >>
  /\ enqueued = {[kind |-> "alert", source |-> 1, alert |-> 2]}

\* The fields of a source's state a failed capture may write.
FailureFields ==
  {"total_captures", "consecutive_failures", "error_count", "last_error",
   "capture_method"}

\* C35: an iteration whose capture failed changes, of the source's state,
\* only total_captures, consecutive_failures, error_count and last_error,
\* and capture_method at the fifth failure in a row: last_alert_state,
\* consecutive_detections, last_notification_time, last_confidence,
\* total_detections and notifications_sent keep their values, and nothing is
\* put on the queue.
C35_FailureKeepsAlertState ==
  [][\A s \in Watched :
       (Processed(s) /\ screenshot' = "None")
         => LET before == windows_state[s]
                after == windows_state'[s]
            IN /\ \A f \in DOMAIN before \ FailureFields : after[f] = before[f]
               /\ after.total_captures = before.total_captures + 1
               /\ after.consecutive_failures = before.consecutive_failures + 1
               /\ after.error_count = before.error_count + 1
               /\ after.capture_method # before.capture_method
                    => after.consecutive_failures = 5
               /\ enqueued' = {}]_vars

\* A capture failed on a source whose last frame showed an alert that had
\* been notified.
C35_Witness ==
  /\ source_name = 1
  /\ screenshot = "None"
  /\ windows_state[1].consecutive_failures = 1
  /\ windows_state[1].last_alert_state
  /\ windows_state[1].consecutive_detections >= 1
  /\ windows_state[1].notifications_sent >= 1

\* C36: a source's successful_captures never exceeds its total_captures.
C36_SuccessfulWithinTotal ==
  \A s \in Watched :
    windows_state[s].successful_captures <= windows_state[s].total_captures

\* C37: the two pause flags are equal whenever neither the dashboard's
\* toggle nor a pause, resume or toggle of the other thread is in progress.
C37_FlagsAgree ==
  (web_pc = "idle" /\ pause_pc = "idle") => SYSTEM_PAUSED = system_paused

\* The standard methods of a sequence of methods, in its order.
Standard(tried) ==
  SelectSeq(tried, LAMBDA m : \E k \in DOMAIN methods_order : m = methods_order[k])

\* C32: in a call of capture made with nothing remembered, the first
\* standard method attempted is the method asked for.
C32_HintHonoured ==
  (remembered = "None" /\ Standard(attempted) # << >>)
    => Standard(attempted)[1] = method_hint

\* C33: after reset_capture_statistics as before it, a call of capture that
\* invokes a method whose Win32 calls give a frame returns a frame.
C33_ResetKeepsCapturing ==
  (\E k \in DOMAIN attempted : attempted[k] \in works) => img = "img"

\* The windows of the configuration find_window found.
FoundWindows == {i \in DOMAIN init_windows :
                   init_windows[i] \in {"found", "no info"}}

\* C34: initialize_capture_system ends by returning; it returns True, with
\* the capture system marked initialized, when a configured window was found,
\* and False when none was.
C34_InitializeReturns ==
  /\ init_returned # "raised"
  /\ init_returned \in {"True", "False"}
       => /\ (init_returned = "True") <=> (FoundWindows # {})
          /\ DIRECT_CAPTURE_INITIALIZED <=> (FoundWindows # {})

\* The source operation a step makes, if it makes one: the steps of the
\* configuration's model other than the loop's cycles.
SourceCall == cycle_count' = cycle_count

\* The list after the operation of last_call' applied to the list before.
Applied ==
  LET i == FirstNamed(config_sources, last_call'.name)
  IN CASE last_call'.op = "add" ->
            /\ Len(config_sources') = Len(config_sources) + 1
            /\ SubSeq(config_sources', 1, Len(config_sources)) = config_sources
            /\ config_sources'[Len(config_sources')].name = last_call'.name
       [] last_call'.op = "remove" ->
            config_sources' = Pop(config_sources, i)
       [] last_call'.op = "toggle" ->
            /\ Len(config_sources') = Len(config_sources)
            /\ Enabled(config_sources'[i]) # Enabled(config_sources[i])
            /\ \A j \in DOMAIN config_sources :
                 j # i => config_sources'[j] = config_sources[j]
            /\ config_sources'[i].name = config_sources[i].name

\* C39: add_source, remove_source and toggle_source are all-or-nothing: when
\* the save fails the list of sources is afterwards exactly what it was,
\* content and order, and the call gives False; when the save succeeds the
\* change is applied and the call gives True.
C39_AllOrNothing ==
  [][SourceCall =>
       /\ last_call'.saved = "failed"
            => config_sources' = config_sources /\ ~last_call'.success
       /\ last_call'.saved = "saved" => Applied /\ last_call'.success]_vars

\* The source of the configuration the latest call named is there and reads
\* as enabled.
NamedEnabled ==
  LET i == FirstNamed(config_sources, last_call.name)
  IN i # 0 /\ Enabled(config_sources[i])

\* C31: a source added at runtime is captured by the cycles of the running
\* loop that follow, and a source removed at runtime is captured by none of
\* them.
C31_HotReload ==
  [][cycle_count' # cycle_count =>
       /\ last_call.op = "add" /\ last_call.success /\ NamedEnabled
            => last_call.name \in captured'
       /\ last_call.op = "remove" /\ last_call.success
            => last_call.name \notin captured']_vars

====
